---------------------------- MODULE Spec2Model ----------------------------
(***************************************************************************)
(* AeroWeather: the weather gateway (utils/weather_service.py) and the     *)
(* data collector with its SQLite table (utils/data_collection.py).        *)
(*                                                                         *)
(* Numbers the program holds as floats are held here as scaled integers:   *)
(*   temperature, feels_like   tenths of a degree Fahrenheit (68.0 -> 680) *)
(*   pressure                  hundredths of a hPa, i.e. Pa (1013.25 ->    *)
(*                             101325)                                     *)
(*   wind_speed                thousandths of a mph                        *)
(*   visibility                millionths of a mile                        *)
(*   precipitation             hundredths (0.3 -> 30)                      *)
(*   delay_minutes             hundredths of a minute (30 -> 3000)         *)
(* Wall-clock time is in minutes.  Dates are proleptic day ordinals with   *)
(* 2023-01-01 = 0; their text form is computed by IsoFormat.               *)
(***************************************************************************)
EXTENDS Integers, Sequences, FiniteSets, TLC

VARIABLES
    now,          \* datetime.now(), minutes since the service was constructed
    cache,        \* WeatherService.cache: key -> [data, timestamp]
    gw,           \* the last direct get_weather call: arguments and outcome
    lastFetch,    \* history: the last successful direct fetch
    tableExists,  \* the SQLite file holds a flight_data table
    table,        \* the rows of flight_data, in id order
    ops,          \* number of collector operations started so far
    runPc,        \* initialize_historical_data: where the call is
    runForce,     \* its force argument
    runResult,    \* how it ended, and the stored_data it returned
    runPriorLen,  \* history: the number of rows in the table when it was called
    initLog,      \* history: the last init_database call and how it ended
    colPc,        \* collect_and_store_data: where the call is
    colCaller,    \* who called it: "run" or "direct"
    colStart,     \* its start_date, defaults applied
    colEnd,       \* its end_date, defaults applied
    current_date, \* the loop variable
    all_data,     \* the list of daily batches
    dayLog,       \* history: every day the loop entered, with what it produced
    storeCalls,   \* history: _store_data calls made by the current collect call
    storeArg,     \* history: the frame handed to _store_data
    storeFailed,  \* history: that _store_data call wrote nothing
    storeOutcome, \* history: what the database did during that call
    storeRaised,  \* history: that _store_data call raised to its caller
    colPrior,     \* history: the table as it was when collect was called
    lastQuery,    \* the last direct get_stored_data call and its result
    bulk,         \* the last direct get_bulk_weather call: arguments and result
    gen,          \* the last direct _generate_flight_data call
    cond,         \* the last direct _map_weather_condition call
    cloud,        \* the last direct _parse_cloud_coverage call
    results_pkl,  \* the file results.pkl: absent, damaged, or a pickled bundle
    modelCall,    \* the last train_model or get_model call and how it ended
    pred,         \* the last predict_with_interval call
    dfCall        \* the last direct call of a function that takes a data frame

wsVars == <<now, cache, gw, lastFetch>>
dbVars == <<tableExists, table>>
runVars == <<runPc, runForce, runResult, runPriorLen, initLog>>
colVars == <<colPc, colCaller, colStart, colEnd, current_date, all_data,
             dayLog, storeCalls, storeArg, storeFailed, storeOutcome,
             storeRaised, colPrior>>
anVars == <<results_pkl, modelCall, pred, dfCall>>
fnVars == <<bulk, gen, cond, cloud, anVars>>
vars == <<wsVars, dbVars, ops, runVars, colVars, lastQuery, fnVars>>

----------------------------------------------------------------------------
(* Bounds of the model *)

\* the clock stops here (minutes)
MaxNow == 30
\* the clock advances in steps of this many minutes
TickMinutes == 15
\* collector operations per behaviour
MaxOps == 2
\* initialize_historical_data covers HistoryDays + 1 days (369 + 1 in the code)
HistoryDays == 1
\* cloud layers per observation in the direct _parse_cloud_coverage calls
MaxLayers == 2

\* None / NaN / SQL NULL
NULL == -999999

----------------------------------------------------------------------------
(* utils/weather_service.py *)

\* self.cache_duration, minutes
cache_duration == 30

\* AIRPORT_COORDINATES, cut to two airports; the values are the coordinates
\* in ten-thousandths of a degree
AIRPORT_COORDINATES ==
    [a \in {"SEA", "LAX"} |->
        IF a = "SEA" THEN [lat |-> 474484, lon |-> -1223790]
                     ELSE [lat |-> 339416, lon |-> -1184085]]

Airports == DOMAIN AIRPORT_COORDINATES

\* self.default_weather; its timestamp is the construction time
default_weather ==
    [temperature |-> 680, feels_like |-> 650, humidity |-> 50,
     pressure |-> 101325, wind_speed |-> 0, wind_direction |-> 0,
     visibility |-> 10000000, cloud_coverage |-> 0,
     weather_condition |-> "Clear", precipitation |-> 0, timestamp |-> 0]

\* _celsius_to_fahrenheit, argument in whole degrees Celsius or NULL
celsius_to_fahrenheit(c) == IF c # NULL THEN (c * 90) \div 5 + 320 ELSE 680

\* _ms_to_mph, argument in whole m/s or NULL
ms_to_mph(v) == IF v # NULL THEN v * 2237 ELSE 0

\* _m_to_miles, argument in whole kilometres (metres / 1000) or NULL
m_to_miles(km) == IF km # NULL THEN km * 621371 ELSE 10000000

\* coverage_values
coverage_values(amount) ==
    CASE amount = "CLR" -> 0
      [] amount = "FEW" -> 25
      [] amount = "SCT" -> 50
      [] amount = "BKN" -> 75
      [] amount = "OVC" -> 100
      [] amount = "VV" -> 100
      [] OTHER -> 0

Max2(a, b) == IF a >= b THEN a ELSE b

(* A layer is written as its 'amount': a string, "<absent>" for a layer     *)
(* without the key, "<null>" for a layer whose amount is null.             *)

\* layer.get('amount', 'CLR')
amount_of(layer) == IF layer = "<absent>" THEN "CLR" ELSE layer

\* str.upper() on the amounts the model spells in small letters
amount_upper(amount) ==
    CASE amount = "clr" -> "CLR"
      [] amount = "few" -> "FEW"
      [] amount = "sct" -> "SCT"
      [] amount = "bkn" -> "BKN"
      [] amount = "ovc" -> "OVC"
      [] amount = "vv" -> "VV"
      [] OTHER -> amount

\* None.upper() raises AttributeError
LayerRaises(layer) == layer = "<null>"

\* a bug: the last layer decides
parse_layers_last(layers, max_coverage) ==
    IF layers = <<>> THEN max_coverage
    ELSE coverage_values(amount_upper(amount_of(layers[Len(layers)])))

RECURSIVE parse_layers(_, _)
parse_layers(layers, max_coverage) ==
    IF layers = <<>> THEN max_coverage
    ELSE parse_layers(Tail(layers),
                      Max2(max_coverage,
                           coverage_values(amount_upper(amount_of(Head(layers))))))

\* _parse_cloud_coverage: 0 for no layers, 0 from the except when a layer
\* raises, else the largest coverage
parse_cloud_coverage(cloud_layers) ==
    IF cloud_layers = <<>> THEN 0
    ELSE IF \E i \in 1..Len(cloud_layers) : LayerRaises(cloud_layers[i]) THEN 0
    ELSE parse_layers(cloud_layers, 0)

\* condition_mapping, in the dict's insertion order; a string is the
\* sequence of its characters
condition_mapping ==
    <<
       <<<<"C", "L", "E", "A", "R">>, "Clear">>,
       <<<<"S", "U", "N", "N", "Y">>, "Clear">>,
       <<<<"F", "A", "I", "R">>, "Clear">>,
       <<<<"M", "O", "S", "T", "L", "Y", " ", "C", "L", "E", "A", "R">>, "Clear">>,
       <<<<"P", "A", "R", "T", "L", "Y", " ", "C", "L", "O", "U", "D", "Y">>, "Clouds">>,
       <<<<"M", "O", "S", "T", "L", "Y", " ", "C", "L", "O", "U", "D", "Y">>, "Clouds">>,
       <<<<"C", "L", "O", "U", "D", "Y">>, "Clouds">>,
       <<<<"O", "V", "E", "R", "C", "A", "S", "T">>, "Clouds">>,
       <<<<"R", "A", "I", "N">>, "Rain">>,
       <<<<"L", "I", "G", "H", "T", " ", "R", "A", "I", "N">>, "Rain">>,
       <<<<"H", "E", "A", "V", "Y", " ", "R", "A", "I", "N">>, "Rain">>,
       <<<<"D", "R", "I", "Z", "Z", "L", "E">>, "Rain">>,
       <<<<"S", "H", "O", "W", "E", "R", "S">>, "Rain">>,
       <<<<"S", "N", "O", "W">>, "Snow">>,
       <<<<"L", "I", "G", "H", "T", " ", "S", "N", "O", "W">>, "Snow">>,
       <<<<"H", "E", "A", "V", "Y", " ", "S", "N", "O", "W">>, "Snow">>,
       <<<<"S", "N", "O", "W", " ", "S", "H", "O", "W", "E", "R", "S">>, "Snow">>,
       <<<<"F", "O", "G">>, "Fog">>,
       <<<<"M", "I", "S", "T">>, "Fog">>,
       <<<<"H", "A", "Z", "E">>, "Fog">>,
       <<<<"T", "H", "U", "N", "D", "E", "R", "S", "T", "O", "R", "M">>, "Thunderstorm">>,
       <<<<"T", "H", "U", "N", "D", "E", "R", "S", "T", "O", "R", "M", "S">>, "Thunderstorm">>,
       <<<<"T", "-", "S", "T", "O", "R", "M">>, "Thunderstorm">>
    >>

\* str.upper() on the letters
UpperOf ==
    "a" :> "A" @@ "b" :> "B" @@ "c" :> "C" @@ "d" :> "D" @@ "e" :> "E" @@
    "f" :> "F" @@ "g" :> "G" @@ "h" :> "H" @@ "i" :> "I" @@ "j" :> "J" @@
    "k" :> "K" @@ "l" :> "L" @@ "m" :> "M" @@ "n" :> "N" @@ "o" :> "O" @@
    "p" :> "P" @@ "q" :> "Q" @@ "r" :> "R" @@ "s" :> "S" @@ "t" :> "T" @@
    "u" :> "U" @@ "v" :> "V" @@ "w" :> "W" @@ "x" :> "X" @@ "y" :> "Y" @@
    "z" :> "Z"

\* a bug: the description is matched as it comes
UpperNone(s) == s

Upper(s) ==
    [i \in 1..Len(s) |-> IF s[i] \in DOMAIN UpperOf THEN UpperOf[s[i]] ELSE s[i]]

\* `key in description_upper`
Contains(s, key) ==
    \E i \in 1..(Len(s) - Len(key) + 1) : SubSeq(s, i, i + Len(key) - 1) = key

RECURSIVE first_match(_, _)
first_match(description_upper, i) ==
    IF i > Len(condition_mapping) THEN "Clear"
    ELSE IF Contains(description_upper, condition_mapping[i][1])
         THEN condition_mapping[i][2]
         ELSE first_match(description_upper, i + 1)

\* _map_weather_condition; an empty or missing description is <<>>
map_weather_condition(noaa_description) ==
    IF noaa_description = <<>> THEN "Clear"
    ELSE first_match(Upper(noaa_description), 1)

(* The latest observation's properties, as the code reads them.  A field   *)
(* that is NULL is a measurement whose "value" is null; a null             *)
(* barometricPressure makes `None / 100` raise inside the inner try.       *)
(* temperature, windChill, heatIndex are whole degrees Celsius, windSpeed  *)
(* whole m/s, visibility whole kilometres, barometricPressure Pa.          *)
ObsClear ==
    [temperature |-> 20, windChill |-> NULL, heatIndex |-> NULL,
     relativeHumidity |-> 50, barometricPressure |-> 101325,
     windSpeed |-> 0, windDirection |-> 0, visibility |-> 16,
     layers |-> <<>>, textDescription |-> <<"C", "l", "e", "a", "r">>,
     precipitationLastHour |-> NULL]

ObsSnow ==
    [temperature |-> 0, windChill |-> -5, heatIndex |-> NULL,
     relativeHumidity |-> 90, barometricPressure |-> 100000,
     windSpeed |-> 5, windDirection |-> 180, visibility |-> 3,
     layers |-> <<"FEW", "OVC">>,
     textDescription |-> <<"L", "i", "g", "h", "t", " ", "S", "n", "o", "w">>,
     precipitationLastHour |-> 50]

ObsNoPressure ==
    [temperature |-> 10, windChill |-> NULL, heatIndex |-> NULL,
     relativeHumidity |-> 80, barometricPressure |-> NULL,
     windSpeed |-> 3, windDirection |-> 90, visibility |-> 8,
     layers |-> <<"BKN">>,
     textDescription |-> <<"L", "i", "g", "h", "t", " ", "R", "a", "i", "n">>,
     precipitationLastHour |-> 40]

Observations == {ObsClear, ObsSnow, ObsNoPressure}

\* building weather_data raises (TypeError on `None / 100`)
ProcessRaises(p) == p.barometricPressure = NULL

\* the weather_data dict built in get_weather's inner try
BuildWeatherData(p, t) ==
    [temperature |-> celsius_to_fahrenheit(p.temperature),
     feels_like |-> celsius_to_fahrenheit(
                        IF p.windChill = NULL THEN p.heatIndex ELSE p.windChill),
     humidity |-> p.relativeHumidity,
     pressure |-> p.barometricPressure,
     wind_speed |-> ms_to_mph(p.windSpeed),
     wind_direction |-> p.windDirection,
     visibility |-> m_to_miles(p.visibility),
     cloud_coverage |-> parse_cloud_coverage(p.layers),
     weather_condition |-> map_weather_condition(p.textDescription),
     precipitation |-> p.precipitationLastHour,
     timestamp |-> t]

\* a bug: the inner except is missing its `return self.default_weather`
ProcessObservationNoFallback(p, t) == [ok |-> TRUE, data |-> BuildWeatherData(p, t)]

\* get_weather's inner try / except: the processed observation, or the
\* default snapshot when processing raises
ProcessObservation(p, t) ==
    IF ProcessRaises(p) THEN [ok |-> FALSE, data |-> default_weather]
    ELSE [ok |-> TRUE, data |-> BuildWeatherData(p, t)]

(* What the external service does during one get_weather call:             *)
(*   no_coords      airport_data has no 'lat'/'lon' (KeyError)             *)
(*   points_http    the points request fails (RequestException)            *)
(*   points_bad     its payload lacks properties.observationStations       *)
(*   stations_http  the stations request fails                             *)
(*   stations_bad   its payload has no features[0].id                      *)
(*   obs_http       the observation request fails                          *)
(*   obs_bad        its payload lacks 'properties'                         *)
(*   ok             all three requests answer with a payload               *)
Outcomes == {"no_coords", "points_http", "points_bad", "stations_http",
             "stations_bad", "obs_http", "obs_bad", "ok"}

\* requests.get calls made before the call ends with that outcome
RequestsMade(outcome) ==
    CASE outcome = "no_coords" -> 0
      [] outcome \in {"points_http", "points_bad"} -> 1
      [] outcome \in {"stations_http", "stations_bad"} -> 2
      [] OTHER -> 3

\* cache_key = f"{airport_code}_{target_date.date().isoformat()}": the
\* string is the pair of its two parts
CacheLookupKey(airport_code, target_date) == <<airport_code, target_date>>

\* self.cache[airport_code] = ...: the key is the bare airport code
CacheStoreKey(airport_code, target_date) == <<airport_code>>

(* get_weather(airport_code, airport_data, target_date) at time t with     *)
(* cache c, the service answering `outcome` and, when it answers, with the *)
(* observation p.  Yields the returned snapshot, the cache afterwards, the *)
(* number of requests made, whether the cache answered, and whether an     *)
(* exception left the method (no path of the code lets one out).           *)
get_weather(c, t, airport_code, target_date, outcome, p) ==
    LET key == CacheLookupKey(airport_code, target_date) IN
    IF key \in DOMAIN c /\ t - c[key].timestamp < cache_duration
    THEN [data |-> c[key].data, cache |-> c, requests |-> 0,
          raised |-> FALSE, hit |-> TRUE]
    ELSE IF outcome # "ok"
    THEN [data |-> default_weather, cache |-> c,
          requests |-> RequestsMade(outcome), raised |-> FALSE, hit |-> FALSE]
    ELSE LET r == ProcessObservation(p, t)
             k == CacheStoreKey(airport_code, target_date)
         IN IF ~r.ok
            THEN [data |-> r.data, cache |-> c, requests |-> 3,
                  raised |-> FALSE, hit |-> FALSE]
            ELSE [data |-> r.data,
                  cache |-> [x \in DOMAIN c \cup {k} |->
                               IF x = k THEN [data |-> r.data, timestamp |-> t]
                                        ELSE c[x]],
                  requests |-> 3, raised |-> FALSE, hit |-> FALSE]

\* a bug: the first airport whose lookup fails ends the loop
bulk_loop_abort(c, t, codes, target_date, outcomeOf, obsOf, weather_data) ==
    LET failed == SelectSeq([i \in 1..Len(codes) |-> i],
                            LAMBDA i : outcomeOf[codes[i]] # "ok")
        n == IF failed = <<>> THEN Len(codes) ELSE Head(failed) - 1
    IN [weather_data |->
          [x \in {codes[i] : i \in 1..n} |->
             get_weather(c, t, x, target_date, outcomeOf[x], obsOf[x]).data],
        cache |-> c]

RECURSIVE bulk_loop(_, _, _, _, _, _, _)
bulk_loop(c, t, codes, target_date, outcomeOf, obsOf, weather_data) ==
    IF codes = <<>> THEN [weather_data |-> weather_data, cache |-> c]
    ELSE LET code == Head(codes)
             r == get_weather(c, t, code, target_date, outcomeOf[code], obsOf[code])
             weather == IF r.raised THEN default_weather ELSE r.data
         IN bulk_loop(r.cache, t, Tail(codes), target_date, outcomeOf, obsOf,
                      [x \in DOMAIN weather_data \cup {code} |->
                          IF x = code THEN weather ELSE weather_data[x]])

\* get_bulk_weather(airports, target_date): airports is the sequence of the
\* dict's keys; outcomeOf and obsOf say what the service does per airport
get_bulk_weather(c, t, airports, target_date, outcomeOf, obsOf) ==
    bulk_loop(c, t, airports, target_date, outcomeOf, obsOf, <<>>)

\* the keys of AIRPORT_COORDINATES in insertion order
AirportOrder == <<"SEA", "LAX">>

----------------------------------------------------------------------------
(* Dates: datetime.date / pd.Timestamp arithmetic and the ISO text form *)

IsLeap(y) == (y % 4 = 0 /\ y % 100 # 0) \/ y % 400 = 0

DaysInMonth(y, m) ==
    CASE m \in {4, 6, 9, 11} -> 30
      [] m = 2 -> IF IsLeap(y) THEN 29 ELSE 28
      [] OTHER -> 31

DaysInYear(y) == IF IsLeap(y) THEN 366 ELSE 365

RECURSIVE DaysBeforeYear(_)
DaysBeforeYear(y) ==
    IF y <= 2023 THEN 0 ELSE DaysBeforeYear(y - 1) + DaysInYear(y - 1)

RECURSIVE DaysBeforeMonth(_, _)
DaysBeforeMonth(y, m) ==
    IF m <= 1 THEN 0 ELSE DaysBeforeMonth(y, m - 1) + DaysInMonth(y, m - 1)

\* date(y, m, d) as a day ordinal, 2023-01-01 = 0
Date(y, m, d) == DaysBeforeYear(y) + DaysBeforeMonth(y, m) + (d - 1)

RECURSIVE YearOf(_, _)
YearOf(n, y) == IF n < DaysInYear(y) THEN y ELSE YearOf(n - DaysInYear(y), y + 1)

RECURSIVE MonthOf(_, _, _)
MonthOf(n, y, m) ==
    IF n < DaysInMonth(y, m) THEN m ELSE MonthOf(n - DaysInMonth(y, m), y, m + 1)

\* the (year, month, day) of a day ordinal
Ymd(n) ==
    LET y == YearOf(n, 2023)
        r == n - DaysBeforeYear(y)
        m == MonthOf(r, y, 1)
    IN [year |-> y, month |-> m, day |-> r - DaysBeforeMonth(y, m) + 1]

\* a character is its code point: "0" is 48, "-" is 45
Digit(k) == 48 + k
Hyphen == 45

\* two digits, zero padded
Pad2(k) == <<Digit(k \div 10), Digit(k % 10)>>

\* date.isoformat() / str(date): YYYY-MM-DD as a sequence of code points
IsoFormat(n) ==
    LET d == Ymd(n) IN
    <<Digit(d.year \div 1000), Digit((d.year \div 100) % 10),
      Digit((d.year \div 10) % 10), Digit(d.year % 10)>>
    \o <<Hyphen>> \o Pad2(d.month) \o <<Hyphen>> \o Pad2(d.day)

\* s < t on strings: the first differing code point decides, a proper prefix
\* is smaller (SQLite's BINARY collation)
RECURSIVE StrLess(_, _)
StrLess(s, t) ==
    IF t = <<>> THEN FALSE
    ELSE IF s = <<>> THEN TRUE
    ELSE IF Head(s) # Head(t) THEN Head(s) < Head(t)
    ELSE StrLess(Tail(s), Tail(t))

StrLeq(s, t) == s = t \/ StrLess(s, t)

----------------------------------------------------------------------------
(* The gateway, called directly *)

\* target dates of the direct calls
WeatherDates == {Date(2024, 12, 11), Date(2024, 12, 12)}

NoCall == [called |-> FALSE]

GetWeather(code, d, outcome, p) ==
    /\ LET r == get_weather(cache, now, code, d, outcome, p) IN
        /\ cache' = r.cache
        /\ gw' = [called |-> TRUE, airport |-> code, date |-> d, time |-> now,
                  outcome |-> outcome, obs |-> p, data |-> r.data,
                  requests |-> r.requests, raised |-> r.raised, hit |-> r.hit,
                  prev |-> lastFetch]
        /\ lastFetch' =
             IF ~r.hit /\ outcome = "ok" /\ ~ProcessRaises(p)
             THEN [valid |-> TRUE, airport |-> code, date |-> d, time |-> now,
                   data |-> r.data]
             ELSE lastFetch
    /\ UNCHANGED <<now, dbVars, ops, runVars, colVars, lastQuery, fnVars>>

Tick ==
    /\ now + TickMinutes <= MaxNow
    /\ now' = now + TickMinutes
    /\ UNCHANGED <<cache, gw, lastFetch, dbVars, ops, runVars, colVars, lastQuery,
                   fnVars>>

\* the airports dicts of the direct bulk calls, as their keys in order
BulkAirports == {<<>>, <<"SEA">>, <<"SEA", "LAX">>, <<"LAX", "SEA">>}

\* what the service does for one airport during a bulk call
BulkAnswers ==
    { [outcome |-> "no_coords", obs |-> ObsClear],
      [outcome |-> "points_http", obs |-> ObsClear],
      [outcome |-> "ok", obs |-> ObsClear],
      [outcome |-> "ok", obs |-> ObsSnow],
      [outcome |-> "ok", obs |-> ObsNoPressure] }

\* weather_service.get_bulk_weather(airports, target_date), called directly
BulkWeather(airports, d, outcomeOf, obsOf) ==
    /\ LET r == get_bulk_weather(cache, now, airports, d, outcomeOf, obsOf) IN
        /\ cache' = r.cache
        /\ bulk' = [called |-> TRUE, airports |-> airports, date |-> d,
                    time |-> now, outcomeOf |-> outcomeOf, obsOf |-> obsOf,
                    weather_data |-> r.weather_data]
    /\ cond' = NoCall
    /\ UNCHANGED <<now, gw, lastFetch, dbVars, ops, runVars, colVars, lastQuery,
                   gen, cloud, anVars>>

\* the descriptions of the direct _map_weather_condition calls; <<>> is the
\* empty string, and None
Descriptions ==
    {
      <<>>,
      <<"l", "i", "g", "h", "t", " ", "r", "a", "i", "n", " ", "s", "h", "o", "w", "e", "r", "s">>,
      <<"L", "i", "g", "h", "t", " ", "R", "a", "i", "n", " ", "S", "h", "o", "w", "e", "r", "s">>,
      <<"L", "I", "G", "H", "T", " ", "R", "A", "I", "N", " ", "S", "H", "O", "W", "E", "R", "S">>,
      <<"C", "l", "e", "a", "r">>,
      <<"c", "l", "e", "a", "r">>,
      <<"S", "u", "n", "n", "y">>,
      <<"M", "o", "s", "t", "l", "y", " ", "C", "l", "o", "u", "d", "y">>,
      <<"o", "v", "e", "r", "c", "a", "s", "t">>,
      <<"H", "e", "a", "v", "y", " ", "R", "a", "i", "n">>,
      <<"L", "i", "g", "h", "t", " ", "D", "r", "i", "z", "z", "l", "e">>,
      <<"S", "n", "o", "w">>,
      <<"h", "e", "a", "v", "y", " ", "s", "n", "o", "w">>,
      <<"F", "o", "g">>,
      <<"M", "i", "s", "t">>,
      <<"h", "a", "z", "e">>,
      <<"T", "h", "u", "n", "d", "e", "r", "s", "t", "o", "r", "m">>,
      <<"T", "-", "s", "t", "o", "r", "m">>,
      <<"F", "o", "g", "/", "M", "i", "s", "t">>,
      <<"W", "i", "n", "d", "y">>,
      <<"S", "m", "o", "k", "e">>,
      <<"T", "o", "r", "n", "a", "d", "o">>,
      <<"B", "l", "o", "w", "i", "n", "g", " ", "D", "u", "s", "t">>
    }

\* the phrases of the condition table themselves
TablePhrases == {condition_mapping[i][1] : i \in 1..Len(condition_mapping)}

\* weather_service._map_weather_condition(noaa_description), called directly
MapCondition(noaa_description) ==
    /\ cond' = [called |-> TRUE, description |-> noaa_description,
                result |-> map_weather_condition(noaa_description)]
    /\ bulk' = NoCall
    /\ UNCHANGED <<wsVars, dbVars, ops, runVars, colVars, lastQuery, gen, cloud, anVars>>

\* the amounts of the layers of the direct _parse_cloud_coverage calls
LayerAmounts == {"CLR", "FEW", "SCT", "BKN", "OVC", "VV", "ovc", "SKC",
                 "<absent>", "<null>"}

LayerLists == UNION {[1..n -> LayerAmounts] : n \in 0..MaxLayers}

\* weather_service._parse_cloud_coverage(cloud_layers), called directly
ParseCloudCoverage(cloud_layers) ==
    /\ cloud' = [called |-> TRUE, layers |-> cloud_layers,
                 result |-> parse_cloud_coverage(cloud_layers)]
    /\ UNCHANGED <<wsVars, dbVars, ops, runVars, colVars, lastQuery, bulk, gen,
                   cond, anVars>>

----------------------------------------------------------------------------
(* utils/data_collection.py *)

\* airlines, cut to one carrier
airlines == <<"Delta">>

(* The random draws of one day: num_flights (Poisson), airline_factor and  *)
(* airport_factor (whole minutes, Normal), the alpha drawn in the rain and *)
(* in the snow regime (whole minutes), and the snapshot of per-field       *)
(* random fallbacks used when the mapping has no entry for the origin.     *)
(* The code draws afresh per flight; a day here uses one tuple of draws    *)
(* for all its flights.                                                    *)
FallbackDraw ==
    [temperature |-> 500, feels_like |-> 500, humidity |-> 60,
     pressure |-> 101300, wind_speed |-> 10000, wind_direction |-> 90,
     visibility |-> 9000000, cloud_coverage |-> 40,
     weather_condition |-> "Clear", precipitation |-> 20, timestamp |-> 0]

Draws(n, airline_factor, airport_factor) ==
    [num_flights |-> n, airline_factor |-> airline_factor,
     airport_factor |-> airport_factor, alpha_rain |-> 10, alpha_snow |-> 25,
     fallback |-> FallbackDraw]

\* a bug: the random fallbacks are used whatever the mapping holds
WeatherOfRandom(weather_data, origin, dr) == dr.fallback

\* weather.get(field, <random draw>) for every field of one flight
WeatherOf(weather_data, origin, dr) ==
    IF origin \in DOMAIN weather_data THEN weather_data[origin] ELSE dr.fallback

\* a bug: the snow regime does not replace the rain regime
alpha_of_rain_only(precipitation, temperature, dr) ==
    IF precipitation >= 30 THEN dr.alpha_rain ELSE 0

\* alpha of one flight: 0, or the draw of the rain regime, replaced by the
\* draw of the snow regime at 32 F and below; precipitation is the record's
\* value after None or 0 has been set to 0.0
alpha_of(precipitation, temperature, dr) ==
    IF precipitation >= 30
    THEN IF temperature <= 320 THEN dr.alpha_snow ELSE dr.alpha_rain
    ELSE 0

\* a bug: the delay is not clamped at 0
FlightRecordNoClamp(weather_data, target_date, airline, origin, dest, dr) ==
    LET w == WeatherOf(weather_data, origin, dr)
        precipitation == IF w.precipitation = NULL \/ w.precipitation = 0
                         THEN 0 ELSE w.precipitation
        alpha == IF precipitation >= 30
                 THEN IF w.temperature <= 320 THEN dr.alpha_snow
                                              ELSE dr.alpha_rain
                 ELSE 0
        base_delay == 50 * dr.airline_factor + 50 * dr.airport_factor
                      + precipitation * 20 + (1000 - w.temperature) \div 10
                      + 100 * alpha
    IN [date |-> target_date, airline |-> airline, origin |-> origin,
        destination |-> dest, temperature |-> w.temperature,
        precipitation |-> precipitation,
        weather_condition |-> w.weather_condition,
        wind_speed |-> w.wind_speed, wind_direction |-> w.wind_direction,
        visibility |-> w.visibility, cloud_coverage |-> w.cloud_coverage,
        humidity |-> w.humidity, pressure |-> w.pressure,
        delay_minutes |-> base_delay,
        weather_delay |-> base_delay > 3000]

\* one flight_data dict of _generate_flight_data, delay simulated
FlightRecord(weather_data, target_date, airline, origin, dest, dr) ==
    LET w == WeatherOf(weather_data, origin, dr)
        precipitation == IF w.precipitation = NULL \/ w.precipitation = 0
                         THEN 0 ELSE w.precipitation
        alpha == alpha_of(precipitation, w.temperature, dr)
        temp_factor == (1000 - w.temperature) \div 10
        base_delay == 50 * dr.airline_factor + 50 * dr.airport_factor
                      + precipitation * 20 + temp_factor + 100 * alpha
        delay_minutes == Max2(0, base_delay)
    IN [date |-> target_date, airline |-> airline, origin |-> origin,
        destination |-> dest, temperature |-> w.temperature,
        precipitation |-> precipitation,
        weather_condition |-> w.weather_condition,
        wind_speed |-> w.wind_speed, wind_direction |-> w.wind_direction,
        visibility |-> w.visibility, cloud_coverage |-> w.cloud_coverage,
        humidity |-> w.humidity, pressure |-> w.pressure,
        delay_minutes |-> delay_minutes,
        weather_delay |-> delay_minutes > 3000]

\* the (airline, origin, dest) triples with origin != dest, in loop order
Triples ==
    LET n == Len(AirportOrder)
        m == Len(airlines)
        all == [k \in 1..(m * n * n) |->
                  <<airlines[((k - 1) \div (n * n)) + 1],
                    AirportOrder[(((k - 1) \div n) % n) + 1],
                    AirportOrder[((k - 1) % n) + 1]>>]
    IN SelectSeq(all, LAMBDA x : x[2] # x[3])

RECURSIVE generate_loop(_, _, _, _)
generate_loop(weather_data, target_date, triples, dr) ==
    IF triples = <<>> THEN <<>>
    ELSE LET x == Head(triples) IN
         [i \in 1..dr.num_flights |->
            FlightRecord(weather_data, target_date, x[1], x[2], x[3], dr)]
         \o generate_loop(weather_data, target_date, Tail(triples), dr)

\* _generate_flight_data(weather_data, target_date): the frame is the
\* sequence of its rows
generate_flight_data(weather_data, target_date, dr) ==
    generate_loop(weather_data, target_date, Triples, dr)

RECURSIVE Concat(_)
\* pd.concat(all_data, ignore_index=True)
Concat(frames) ==
    IF frames = <<>> THEN <<>> ELSE Head(frames) \o Concat(Tail(frames))

InSeq(x, s) == \E i \in 1..Len(s) : s[i] = x

RECURSIVE drop_dup(_, _)
drop_dup(df, kept) ==
    IF df = <<>> THEN kept
    ELSE drop_dup(Tail(df),
                  IF InSeq(Head(df), kept) THEN kept ELSE Append(kept, Head(df)))

\* df.drop_duplicates(): the first of every group of equal rows is kept
drop_duplicates(df) == drop_dup(df, <<>>)

RECURSIVE SumTemp(_)
SumTemp(df) ==
    IF df = <<>> THEN 0
    ELSE (IF Head(df).temperature = NULL THEN 0 ELSE Head(df).temperature)
         + SumTemp(Tail(df))

\* df['temperature'].mean(): the missing values are skipped
MeanTemp(df) ==
    LET n == Len(SelectSeq(df, LAMBDA r : r.temperature # NULL)) IN
    IF n = 0 THEN NULL ELSE SumTemp(df) \div n

(* _clean_data(df).  A frame without a row has no column, and              *)
(* df['temperature'] raises KeyError; the caller tests CleanRaises first.  *)
(* The generator never leaves weather_condition or weather_delay missing,  *)
(* so those two fills and the two type conversions change nothing.         *)
CleanRaises(df) == df = <<>>

\* a bug: every weather_delay is overwritten with the fill value False
clean_data_unflag(df) ==
    LET d == drop_duplicates(df)
        mean == MeanTemp(d)
    IN [i \in 1..Len(d) |->
          [d[i] EXCEPT
             !.temperature = IF @ = NULL THEN mean ELSE @,
             !.precipitation = IF @ = NULL THEN 0 ELSE @,
             !.delay_minutes = IF @ = NULL THEN 0 ELSE @,
             !.weather_delay = FALSE]]

clean_data(df) ==
    LET d == drop_duplicates(df)
        mean == MeanTemp(d)
    IN [i \in 1..Len(d) |->
          [d[i] EXCEPT
             !.temperature = IF @ = NULL THEN mean ELSE @,
             !.precipitation = IF @ = NULL THEN 0 ELSE @,
             !.delay_minutes = IF @ = NULL THEN 0 ELSE @]]

\* one row as to_sql writes it: the date as ISO text, and the insertion
\* stamp (collection_timestamp; the number of the operation that wrote it)
StoredRow(r, stamp) ==
    [data |-> [r EXCEPT !.date = IsoFormat(r.date)],
     collection_timestamp |-> stamp]

\* _store_data(df), when to_sql succeeds: if_exists='append'
store_data(tbl, df, stamp) ==
    tbl \o [i \in 1..Len(df) |-> StoredRow(df[i], stamp)]

\* what the database does during one _store_data call:
\*   ok             the connection opens and to_sql appends the frame
\*   connect_fails  sqlite3.connect raises, before the try is entered
\*   to_sql_fails   to_sql raises inside the try; its transaction is undone
StoreOutcomes == {"ok", "connect_fails", "to_sql_fails"}

\* a bug: a failing to_sql leaves the rows it had inserted so far
store_call_partial(tbl, df, stamp, outcome) ==
    CASE outcome = "ok" -> [table |-> store_data(tbl, df, stamp), raised |-> FALSE]
      [] outcome = "to_sql_fails" ->
            [table |-> store_data(tbl, SubSeq(df, 1, 1), stamp), raised |-> FALSE]
      [] OTHER -> [table |-> tbl, raised |-> TRUE]

\* _store_data(df): the table afterwards, and whether the call raised
store_call(tbl, df, stamp, outcome) ==
    CASE outcome = "ok" -> [table |-> store_data(tbl, df, stamp), raised |-> FALSE]
      [] outcome = "to_sql_fails" -> [table |-> tbl, raised |-> FALSE]
      [] OTHER -> [table |-> tbl, raised |-> TRUE]

\* a bug: a bound given alone is applied
get_stored_data_one_sided(tbl, start_date, end_date) ==
    SelectSeq(tbl, LAMBDA x :
        /\ (start_date # NULL => StrLeq(IsoFormat(start_date), x.data.date))
        /\ (end_date # NULL => StrLeq(x.data.date, IsoFormat(end_date))))

\* a bug: the upper bound of the range is excluded
get_stored_data_exclusive(tbl, start_date, end_date) ==
    IF start_date # NULL /\ end_date # NULL
    THEN SelectSeq(tbl, LAMBDA x :
            /\ StrLeq(IsoFormat(start_date), x.data.date)
            /\ StrLess(x.data.date, IsoFormat(end_date)))
    ELSE tbl

\* get_stored_data(start_date, end_date) on an existing table; NULL is None
get_stored_data(tbl, start_date, end_date) ==
    IF start_date # NULL /\ end_date # NULL
    THEN SelectSeq(tbl, LAMBDA x :
            /\ StrLeq(IsoFormat(start_date), x.data.date)
            /\ StrLeq(x.data.date, IsoFormat(end_date)))
    ELSE tbl

\* init_database(): what it leaves behind and whether it raised.
\*   ok            the file is removed and the table created anew
\*   unlink_fails  removing the file raises: nothing has changed
\*   create_fails  the file is removed, creating the table raises
InitOutcomes == {"ok", "unlink_fails", "create_fails"}

\* a bug: init_database logs its failure and returns
init_database_swallow(exists, tbl, outcome) ==
    CASE outcome = "ok" -> [tableExists |-> TRUE, table |-> <<>>, raised |-> FALSE]
      [] outcome = "unlink_fails" ->
            [tableExists |-> exists, table |-> tbl, raised |-> FALSE]
      [] OTHER -> [tableExists |-> FALSE, table |-> <<>>, raised |-> FALSE]

\* a bug: the existing file is not removed (CREATE TABLE IF NOT EXISTS only)
init_database_keep(exists, tbl, outcome) ==
    CASE outcome = "ok" -> [tableExists |-> TRUE, table |-> tbl, raised |-> FALSE]
      [] outcome = "unlink_fails" ->
            [tableExists |-> exists, table |-> tbl, raised |-> TRUE]
      [] OTHER -> [tableExists |-> FALSE, table |-> <<>>, raised |-> TRUE]

init_database(exists, tbl, outcome) ==
    CASE outcome = "ok" -> [tableExists |-> TRUE, table |-> <<>>, raised |-> FALSE]
      [] outcome = "unlink_fails" ->
            [tableExists |-> exists, table |-> tbl, raised |-> TRUE]
      [] OTHER -> [tableExists |-> FALSE, table |-> <<>>, raised |-> TRUE]

\* end_date = date(2024,12,13); start_date = end_date - timedelta(days=...)
RunEndDate == Date(2024, 12, 13)
RunStartDate == RunEndDate - HistoryDays

\* collect_and_store_data's defaults for start_date and end_date
DefaultStart == Date(2024, 12, 11)
DefaultEnd == Date(2023, 12, 11)

(* What one day of the loop meets: what the weather service answers (to    *)
(* every airport alike), the day's random draws, and whether processing    *)
(* the day raises after the weather was fetched.                           *)
DayScenarios ==
    { [wx |-> "points_http", obs |-> ObsClear, raises |-> FALSE,
       draws |-> Draws(2, -10, -10)],
      [wx |-> "ok", obs |-> ObsSnow, raises |-> FALSE,
       draws |-> Draws(1, 15, 30)],
      [wx |-> "ok", obs |-> ObsClear, raises |-> TRUE,
       draws |-> Draws(1, 15, 30)],
      [wx |-> "obs_http", obs |-> ObsClear, raises |-> FALSE,
       draws |-> Draws(0, 15, 30)] }

\* a bug: the verification does not raise on an empty result
VerifyOutcomeLenient(exists, tbl) == IF ~exists THEN "query" ELSE "none"

\* "Verify data was stored": get_stored_data raises when the file holds no
\* flight_data table; an empty result raises "No data was stored"
VerifyOutcome(exists, tbl) ==
    IF ~exists THEN "query"
    ELSE IF get_stored_data(tbl, RunStartDate, RunEndDate) = <<>> THEN "no_data"
    ELSE "none"

\* a bug: a failing day ends the loop
NextDateStopOnError(cur, end, raised) == IF raised THEN end + 1 ELSE cur + 1

\* current_date += pd.Timedelta(days=1), after the try / except of the day
NextDate(cur, end, raised) == cur + 1

\* a bug: every day's batch is stored as soon as it is generated
AfterDayStoreEach(tbl, all, daily, raised, stamp) ==
    [table |-> IF raised THEN tbl ELSE store_data(tbl, daily, stamp),
     all_data |-> IF raised THEN all ELSE Append(all, daily)]

\* the body of the loop after get_bulk_weather: all_data.append(daily_data),
\* or the except clause that only logs; the table is not touched
AfterDay(tbl, all, daily, raised, stamp) ==
    [table |-> tbl, all_data |-> IF raised THEN all ELSE Append(all, daily)]

(* The weather mappings of the direct _generate_flight_data calls: none,   *)
(* the default snapshot for every airport, a processed snow observation    *)
(* for SEA beside the default for LAX, and an entry for LAX alone.         *)
GenWeather ==
    { <<>>,
      [a \in Airports |-> default_weather],
      [a \in Airports |-> IF a = "SEA" THEN BuildWeatherData(ObsSnow, 0)
                                       ELSE default_weather],
      [a \in {"LAX"} |-> BuildWeatherData(ObsClear, 0)],
      [a \in {"SEA"} |-> BuildWeatherData(ObsSnow, 0)] }

\* a second tuple of per-field fallback draws: cold and wet
FallbackDrawCold ==
    [temperature |-> 250, feels_like |-> 200, humidity |-> 85,
     pressure |-> 100800, wind_speed |-> 15000, wind_direction |-> 300,
     visibility |-> 5000000, cloud_coverage |-> 90,
     weather_condition |-> "Clear", precipitation |-> 45, timestamp |-> 0]

\* a third: warm, with precipitation exactly 0.3
FallbackDrawWet == [FallbackDraw EXCEPT !.precipitation = 30]

\* a fourth: below freezing, with precipitation under 0.3
FallbackDrawFrost ==
    [FallbackDrawCold EXCEPT !.temperature = 150, !.precipitation = 29]

\* the random draws of the direct _generate_flight_data calls
GenDraws ==
    { [Draws(n, airline_factor, airport_factor) EXCEPT !.fallback = f] :
        n \in 0..2, airline_factor \in {-60, 5, 21, 45},
        airport_factor \in {-10, 30},
        f \in {FallbackDraw, FallbackDrawCold, FallbackDrawWet,
               FallbackDrawFrost} }

\* data_collector._generate_flight_data(weather_data, target_date)
Generate(weather_data, dr) ==
    /\ gen' = [called |-> TRUE, weather_data |-> weather_data, draws |-> dr,
               rows |-> generate_flight_data(weather_data, Date(2024, 12, 11), dr)]
    /\ UNCHANGED <<wsVars, dbVars, ops, runVars, colVars, lastQuery, bulk, cond,
                   cloud, anVars>>

----------------------------------------------------------------------------
(* The collector's operations *)

Idle == runPc \in {"idle", "returned", "raised"} /\ colPc \in {"idle", "done"}

NoResult == [error |-> "none", rows |-> <<>>]

NoQuery == [called |-> FALSE]

NoInit == [called |-> FALSE]

\* no collect_and_store_data call is in progress or remembered
ColIdle ==
    /\ colPc' = "idle"
    /\ colCaller' = "direct"
    /\ colStart' = 0
    /\ colEnd' = 0
    /\ current_date' = 0
    /\ all_data' = <<>>
    /\ dayLog' = <<>>
    /\ storeCalls' = 0
    /\ storeArg' = <<>>
    /\ storeFailed' = FALSE
    /\ storeOutcome' = "none"
    /\ storeRaised' = FALSE
    /\ colPrior' = <<>>

\* no initialize_historical_data call is in progress or remembered
RunIdle ==
    /\ runPc' = "idle"
    /\ runForce' = FALSE
    /\ runResult' = NoResult
    /\ runPriorLen' = 0

\* the entry of collect_and_store_data: defaults, then the loop's setup
EnterCollect(caller, start_date, end_date, tbl) ==
    /\ colPc' = "loop"
    /\ colCaller' = caller
    /\ colStart' = (IF start_date = NULL THEN DefaultStart ELSE start_date)
    /\ colEnd' = (IF end_date = NULL THEN DefaultEnd ELSE end_date)
    /\ current_date' = (IF start_date = NULL THEN DefaultStart ELSE start_date)
    /\ all_data' = <<>>
    /\ dayLog' = <<>>
    /\ storeCalls' = 0
    /\ storeArg' = <<>>
    /\ storeFailed' = FALSE
    /\ storeOutcome' = "none"
    /\ storeRaised' = FALSE
    /\ colPrior' = tbl

\* the date ranges of the direct calls; <<NULL, NULL>> is the scheduler's
\* daily call without arguments
CollectRanges == { <<NULL, NULL>>, <<Date(2023, 12, 31), Date(2024, 1, 1)>> }

\* data_collector.collect_and_store_data(start_date, end_date), called
CollectStart(start_date, end_date) ==
    /\ Idle
    /\ ops < MaxOps
    /\ ops' = ops + 1
    /\ RunIdle
    /\ initLog' = NoInit
    /\ lastQuery' = NoQuery
    /\ EnterCollect("direct", start_date, end_date, table)
    /\ UNCHANGED <<wsVars, dbVars, fnVars>>

\* the end-to-end scenario: a collection over the three days 2024-02-28 to
\* 2024-03-01 into a table that holds no row
ScenarioStart ==
    /\ table = <<>>
    /\ CollectStart(Date(2024, 2, 28), Date(2024, 3, 1))

\* one iteration of `while current_date <= end_date`
CollectDay(s) ==
    /\ colPc = "loop"
    /\ current_date <= colEnd
    /\ LET bw == get_bulk_weather(cache, now, AirportOrder, current_date,
                                  [a \in Airports |-> s.wx],
                                  [a \in Airports |-> s.obs])
           daily == generate_flight_data(bw.weather_data, current_date, s.draws)
           r == AfterDay(table, all_data, daily, s.raises, ops)
       IN /\ cache' = bw.cache
          /\ table' = r.table
          /\ all_data' = r.all_data
          /\ dayLog' = Append(dayLog, [date |-> current_date,
                                       weather |-> bw.weather_data,
                                       ok |-> ~s.raises,
                                       batch |-> IF s.raises THEN <<>> ELSE daily])
    /\ current_date' = NextDate(current_date, colEnd, s.raises)
    /\ UNCHANGED <<now, gw, lastFetch, tableExists, ops, runVars, colPc,
                   colCaller, colStart, colEnd, storeCalls, storeArg,
                   storeFailed, storeOutcome, storeRaised, colPrior, lastQuery,
                   fnVars>>

\* the loop is over: combine, clean, store, return; whatever the store
\* raises is logged by the outer except, and the call returns
CollectFinish(outcome) ==
    /\ colPc = "loop"
    /\ current_date > colEnd
    /\ IF all_data = <<>> \/ CleanRaises(Concat(all_data))
       THEN UNCHANGED <<dbVars, storeCalls, storeArg, storeFailed,
                        storeOutcome, storeRaised>>
       ELSE LET cleaned_data == clean_data(Concat(all_data))
                r == store_call(table, cleaned_data, ops, outcome)
            IN /\ storeCalls' = storeCalls + 1
               /\ storeArg' = cleaned_data
               /\ storeFailed' = (outcome # "ok")
               /\ storeOutcome' = outcome
               /\ storeRaised' = r.raised
               /\ table' = r.table
               /\ tableExists' = (tableExists \/ outcome = "ok")
    /\ colPc' = "done"
    /\ runPc' = (IF colCaller = "run" THEN "verify" ELSE runPc)
    /\ UNCHANGED <<wsVars, ops, runForce, runResult, runPriorLen, initLog, colCaller,
                   colStart, colEnd, current_date, all_data, dayLog, colPrior,
                   lastQuery, fnVars>>

\* data_collector.init_database(), called by the scheduler's first run
InitDatabase(outcome) ==
    /\ Idle
    /\ ops < MaxOps
    /\ ops' = ops + 1
    /\ LET r == init_database(tableExists, table, outcome) IN
        /\ tableExists' = r.tableExists
        /\ table' = r.table
        /\ initLog' = [called |-> TRUE, outcome |-> outcome, raised |-> r.raised]
    /\ RunIdle
    /\ ColIdle
    /\ lastQuery' = NoQuery
    /\ UNCHANGED <<wsVars, fnVars>>

\* initialize_historical_data(force), up to the call of
\* collect_and_store_data (force) or to the verification (not force)
RunStart(force, outcome) ==
    /\ Idle
    /\ ops < MaxOps
    /\ ops' = ops + 1
    /\ runForce' = force
    /\ runPriorLen' = Len(table)
    /\ IF force
       THEN LET r == init_database(tableExists, table, outcome) IN
            /\ initLog' = [called |-> TRUE, outcome |-> outcome,
                           raised |-> r.raised]
            /\ tableExists' = r.tableExists
            /\ table' = r.table
            /\ IF r.raised
               THEN /\ runPc' = "raised"
                    /\ runResult' = [error |-> "init_database", rows |-> <<>>]
                    /\ ColIdle
               ELSE /\ runPc' = "collecting"
                    /\ runResult' = NoResult
                    /\ EnterCollect("run", RunStartDate, RunEndDate, r.table)
       ELSE /\ initLog' = NoInit
            /\ runPc' = "verify"
            /\ runResult' = NoResult
            /\ ColIdle
            /\ UNCHANGED dbVars
    /\ lastQuery' = NoQuery
    /\ UNCHANGED <<wsVars, fnVars>>

\* initialize_historical_data: "Verify data was stored", then return or raise
RunVerify ==
    /\ runPc = "verify"
    /\ LET e == VerifyOutcome(tableExists, table) IN
        /\ runPc' = (IF e = "none" THEN "returned" ELSE "raised")
        /\ runResult' =
             [error |-> e,
              rows |-> IF e = "none"
                       THEN get_stored_data(table, RunStartDate, RunEndDate)
                       ELSE <<>>]
    /\ UNCHANGED <<wsVars, dbVars, ops, runForce, runPriorLen, initLog, colVars,
                   lastQuery,
                   fnVars>>

\* the bounds of the direct queries; NULL is an argument left out
QueryDates == {NULL, Date(2023, 12, 31), Date(2024, 2, 1), Date(2024, 12, 12)}

\* data_collector.get_stored_data(start_date, end_date), called directly
Query(start_date, end_date) ==
    /\ Idle
    /\ ops < MaxOps
    /\ ops' = ops + 1
    /\ lastQuery' =
         IF tableExists
         THEN [called |-> TRUE, start |-> start_date, end |-> end_date,
               raised |-> FALSE,
               rows |-> get_stored_data(table, start_date, end_date)]
         ELSE [called |-> TRUE, start |-> start_date, end |-> end_date,
               raised |-> TRUE, rows |-> <<>>]
    /\ RunIdle
    /\ initLog' = NoInit
    /\ ColIdle
    /\ UNCHANGED <<wsVars, dbVars, fnVars>>

----------------------------------------------------------------------------
(* utils/analysis.py: the model snapshot and the prediction interval *)

\* Delays and cv_rmse are in hundredths of a minute; the three values that
\* predict_with_interval returns are in ten-thousandths of a minute, so that
\* the factor 1.96 is the integer 196.

\* results.pkl does not exist
NoFile == [state |-> "absent"]

\* results.pkl exists but holds no complete pickle: open(..., 'wb') has
\* truncated it and pickle.dump did not finish
DamagedFile == [state |-> "corrupt"]

\* metrics['cv_rmse'] of a bundle: sqrt(-mean of the cross-validation
\* scores), which is a number >= 0 when the mean score is <= 0 and NaN
\* (NULL here) when the mean score is positive
CvRmses == {NULL, 0, 250, 500, 1500}

\* what the forest can answer: every tree answers the mean of the
\* delay_minutes of some training rows, and those are never negative
Predictions == {0, 100, 490, 980, 2000, 2940, 4000}

\* the steps at which a train_model call can end: building the features,
\* fitting the forest, cross-validating and scoring it, writing the file
TrainOutcomes == {"ok", "features_fail", "fit_fails", "eval_fails",
                  "dump_fails"}

\* the outcomes in which train_model raises before it opens results.pkl
BeforeDump == {"features_fail", "fit_fails", "eval_fails"}

\* a bug: results.pkl is opened for writing before the forest is fitted
train_model_early_open(file, cv_rmse, outcome) ==
    CASE outcome = "features_fail" ->
            [file |-> file, raised |-> TRUE, results |-> [cv_rmse |-> NULL]]
      [] outcome \in {"fit_fails", "eval_fails", "dump_fails"} ->
            [file |-> [state |-> "corrupt"], raised |-> TRUE,
             results |-> [cv_rmse |-> NULL]]
      [] OTHER ->
            [file |-> [state |-> "ok", bundle |-> [cv_rmse |-> cv_rmse]],
             raised |-> FALSE, results |-> [cv_rmse |-> cv_rmse]]

\* train_model: fit and evaluate, then overwrite results.pkl with the bundle
train_model(file, cv_rmse, outcome) ==
    CASE outcome \in BeforeDump ->
            [file |-> file, raised |-> TRUE, results |-> [cv_rmse |-> NULL]]
      [] outcome = "dump_fails" ->
            [file |-> DamagedFile, raised |-> TRUE,
             results |-> [cv_rmse |-> NULL]]
      [] OTHER ->
            [file |-> [state |-> "ok", bundle |-> [cv_rmse |-> cv_rmse]],
             raised |-> FALSE, results |-> [cv_rmse |-> cv_rmse]]

get_model_silent(file) ==
    IF file.state = "ok"
    THEN [raised |-> FALSE, logged |-> FALSE, error |-> "none",
          results |-> file.bundle]
    ELSE [raised |-> FALSE, logged |-> TRUE, error |-> "none",
          results |-> [cv_rmse |-> NULL]]

\* get_model: load results.pkl; a failed load is logged, and the return
\* statement then reads the name that was never bound
get_model(file) ==
    IF file.state = "ok"
    THEN [raised |-> FALSE, logged |-> FALSE, error |-> "none",
          results |-> file.bundle]
    ELSE [raised |-> TRUE, logged |-> TRUE, error |-> "UnboundLocalError",
          results |-> [cv_rmse |-> NULL]]

\* max(0, x) of Python, where a NaN second argument leaves the 0
max0(x) == IF x = NULL THEN 0 ELSE IF x > 0 THEN x ELSE 0

\* cv_rmse * 1.96
margin_of(cv_rmse) == IF cv_rmse = NULL THEN NULL ELSE cv_rmse * 196

predict_with_interval_unclamped(model, prediction, date) ==
    IF date = NULL
    THEN [raised |-> TRUE, prediction |-> NULL, lower_bound |-> NULL,
          upper_bound |-> NULL]
    ELSE LET margin == margin_of(model.cv_rmse)
         IN [raised |-> FALSE,
             prediction |-> prediction * 100,
             lower_bound |-> IF margin = NULL THEN 0
                             ELSE prediction * 100 - margin,
             upper_bound |-> IF margin = NULL THEN NULL
                             ELSE prediction * 100 + margin]

\* predict_with_interval: prediction is what model['model'].predict answers
\* for the feature vector; a missing date makes the function call None
predict_with_interval(model, prediction, date) ==
    IF date = NULL
    THEN [raised |-> TRUE, prediction |-> NULL, lower_bound |-> NULL,
          upper_bound |-> NULL]
    ELSE LET margin == margin_of(model.cv_rmse)
         IN [raised |-> FALSE,
             prediction |-> prediction * 100,
             lower_bound |-> max0(IF margin = NULL THEN NULL
                                  ELSE prediction * 100 - margin),
             upper_bound |-> IF margin = NULL THEN NULL
                             ELSE prediction * 100 + margin]

\* pages/predictions.py with RETRAIN on: train a model
TrainModel(cv_rmse, outcome) ==
    LET r == train_model(results_pkl, cv_rmse, outcome)
    IN /\ results_pkl' = r.file
       /\ modelCall' = [called |-> TRUE, op |-> "train_model",
                        prior |-> results_pkl, raised |-> r.raised,
                        logged |-> FALSE, error |-> outcome,
                        results |-> r.results]
       /\ pred' = NoCall
       /\ UNCHANGED <<wsVars, dbVars, ops, runVars, colVars, lastQuery, bulk,
                      gen, cond, cloud, dfCall>>

\* pages/predictions.py with RETRAIN off: load the stored model
GetModel ==
    LET r == get_model(results_pkl)
    IN /\ modelCall' = [called |-> TRUE, op |-> "get_model",
                        prior |-> results_pkl, raised |-> r.raised,
                        logged |-> r.logged, error |-> r.error,
                        results |-> r.results]
       /\ pred' = NoCall
       /\ UNCHANGED <<wsVars, dbVars, ops, runVars, colVars, lastQuery, bulk,
                      gen, cond, cloud, results_pkl, dfCall>>

\* the page asks for a prediction with the bundle it has obtained
PredictWithInterval(prediction, date) ==
    /\ modelCall.called
    /\ ~modelCall.raised
    /\ pred' = [called |-> TRUE, cv_rmse |-> modelCall.results.cv_rmse,
                forest |-> prediction, date |-> date,
                result |-> predict_with_interval(modelCall.results,
                                                 prediction, date)]
    /\ UNCHANGED <<wsVars, dbVars, ops, runVars, colVars, lastQuery, bulk,
                   gen, cond, cloud, results_pkl, modelCall, dfCall>>

----------------------------------------------------------------------------
(* Functions over a data frame: the severe-weather flag *)

\* A frame is the sequence of its rows; of a row only temperature (tenths
\* of a degree), precipitation (hundredths) and delay_minutes (hundredths of
\* a minute) matter to these functions.
Row(temperature, precipitation, delay_minutes) ==
    [temperature |-> temperature, precipitation |-> precipitation,
     delay_minutes |-> delay_minutes]

\* the frames the functions are called with
Frames ==
    { <<Row(680, 0, 0)>>,
      <<Row(680, 0, 0), Row(680, 0, 0), Row(680, 0, 0)>>,
      <<Row(300, 80, 6000), Row(900, 0, 0)>>,
      <<Row(500, 0, 500), Row(300, 80, 6000), Row(680, 20, 1500),
        Row(900, 0, 0), Row(700, 50, 3500)>>,
      <<Row(320, 50, 5818), Row(680, 0, 0), Row(680, 0, 1000),
        Row(500, 20, 2000), Row(500, 30, 4000)>>,
      <<Row(680, 0, 0), Row(680, 0, 0), Row(500, 0, 0), Row(680, 0, 0),
        Row(320, 50, 1000)>> }

RECURSIVE InsertSorted(_, _)
InsertSorted(x, s) ==
    IF s = <<>> THEN <<x>>
    ELSE IF x <= Head(s) THEN <<x>> \o s
    ELSE <<Head(s)>> \o InsertSorted(x, Tail(s))

RECURSIVE SortAsc(_)
\* the values of a column in ascending order
SortAsc(s) == IF s = <<>> THEN <<>> ELSE InsertSorted(Head(s), SortAsc(Tail(s)))

\* Series.quantile(q) for q = tenths / 10, linear interpolation between the
\* two nearest order statistics; the result is ten times the quantile
quantile10(values, tenths) ==
    LET s == SortAsc(values)
        h == (Len(s) - 1) * tenths
        lo == h \div 10 + 1
        frac == h % 10
    IN IF frac = 0 THEN s[lo] * 10
       ELSE s[lo] * (10 - frac) + s[lo + 1] * frac

Column(df, name) == [i \in 1..Len(df) |-> df[i][name]]

\* a bug: training uses the upper tail of temperature, as inference does
severe_weather_train_upper(df, temperature, precipitation) ==
    /\ temperature * 10 > quantile10(Column(df, "temperature"), 8)
    /\ precipitation * 10 > quantile10(Column(df, "precipitation"), 8)

\* engineer_features of train_model: the flag of a row of the training set
severe_weather_train(df, temperature, precipitation) ==
    /\ temperature * 10 < quantile10(Column(df, "temperature"), 2)
    /\ precipitation * 10 > quantile10(Column(df, "precipitation"), 8)

\* predict_with_interval: the flag of the input, against the frame df
severe_weather_infer(df, temperature, precipitation) ==
    /\ temperature * 10 > quantile10(Column(df, "temperature"), 8)
    /\ precipitation * 10 > quantile10(Column(df, "precipitation"), 8)

\* the temperatures and precipitations the flags are asked for
FlagTemperatures == {200, 320, 680, 950}
FlagPrecipitations == {0, 30, 90}

\* both flags of one (temperature, precipitation) over one reference frame
SevereWeather(df, temperature, precipitation) ==
    /\ dfCall' = [called |-> TRUE, op |-> "severe_weather", df |-> df,
                  temperature |-> temperature,
                  precipitation |-> precipitation,
                  train |-> severe_weather_train(df, temperature,
                                                 precipitation),
                  infer |-> severe_weather_infer(df, temperature,
                                                 precipitation)]
    /\ UNCHANGED <<wsVars, dbVars, ops, runVars, colVars, lastQuery, bulk,
                   gen, cond, cloud, results_pkl, modelCall, pred>>

----------------------------------------------------------------------------
(* utils/analysis.py: perform_weather_analysis, the severity buckets *)

\* Series.quantile(q) for q = quarters / 4, linear interpolation; the result
\* is four times the quantile
quantile4(values, quarters) ==
    LET s == SortAsc(values)
        h == (Len(s) - 1) * quarters
        lo == h \div 4 + 1
        frac == h % 4
    IN IF frac = 0 THEN s[lo] * 4
       ELSE s[lo] * (4 - frac) + s[lo + 1] * frac

\* the five bin edges of pd.qcut(x, q=4), times four
qcut_edges(values) == [k \in 1..5 |-> quantile4(values, k - 1)]

severity_labels == <<"Low", "Moderate", "High", "Severe">>

\* pd.qcut(..., labels=[4 labels], duplicates='drop') raises when dropping
\* the duplicate edges leaves fewer than five: the labels no longer fit
QcutRaises(values) ==
    LET e == qcut_edges(values)
    IN Cardinality({e[k] : k \in 1..5}) < 5

\* the label of one value when the five edges are distinct: the first bin
\* includes its lower edge, every bin includes its upper edge
qcut_label(values, x) ==
    LET e == qcut_edges(values)
        k == CHOOSE j \in 1..4 :
                /\ x * 4 <= e[j + 1]
                /\ \A i \in 1..4 : x * 4 <= e[i + 1] => j <= i
    IN severity_labels[k]

\* the try / except around qcut: df['weather_severity']
severity_of(values) ==
    IF QcutRaises(values)
    THEN [raised |-> FALSE, labels |-> [i \in 1..Len(values) |-> "Low"]]
    ELSE [raised |-> FALSE,
          labels |-> [i \in 1..Len(values) |-> qcut_label(values, values[i])]]

\* stats.pearsonr, called before the try, rejects fewer than two points
PearsonRaises(df) == Len(df) < 2

\* perform_weather_analysis(df): whether it raised and the severity column
perform_weather_analysis(df) ==
    IF PearsonRaises(df)
    THEN [raised |-> TRUE, weather_severity |-> <<>>]
    ELSE LET s == severity_of(Column(df, "delay_minutes"))
         IN [raised |-> s.raised, weather_severity |-> s.labels]

PerformWeatherAnalysis(df) ==
    /\ dfCall' = [called |-> TRUE, op |-> "perform_weather_analysis",
                  df |-> df, result |-> perform_weather_analysis(df)]
    /\ UNCHANGED <<wsVars, dbVars, ops, runVars, colVars, lastQuery, bulk,
                   gen, cond, cloud, results_pkl, modelCall, pred>>

----------------------------------------------------------------------------
(* utils/data_processor.py: load_sample_data *)

\* load_sample_data(): the stored rows when the query succeeds and is not
\* empty.  In every other case (the import fails, the query raises, the
\* table is empty) the function logs and runs off its end, the generation
\* that followed being commented out: it returns None (dataset FALSE).
load_sample_data(importable, exists, tbl) ==
    IF importable /\ exists /\ get_stored_data(tbl, NULL, NULL) # <<>>
    THEN [dataset |-> TRUE, rows |-> get_stored_data(tbl, NULL, NULL)]
    ELSE [dataset |-> FALSE, rows |-> <<>>]

\* a page calls load_sample_data()
LoadSampleData(importable) ==
    /\ Idle
    /\ ops < MaxOps
    /\ ops' = ops + 1
    /\ dfCall' = [called |-> TRUE, op |-> "load_sample_data",
                  importable |-> importable, exists |-> tableExists,
                  stored |-> table,
                  result |-> load_sample_data(importable, tableExists, table)]
    /\ RunIdle
    /\ initLog' = NoInit
    /\ ColIdle
    /\ lastQuery' = NoQuery
    /\ UNCHANGED <<wsVars, dbVars, bulk, gen, cond, cloud, results_pkl,
                   modelCall, pred>>

----------------------------------------------------------------------------
(* utils/data_processor.py: process_delay_data *)

\* bins=[0, 10, 20, 40, inf] in hundredths of a minute; the last edge is inf
delay_bins == <<0, 1000, 2000, 4000>>

delay_labels == <<"No Delay", "Minor", "Significant", "Severe">>

\* pd.cut(x, bins, labels): the bins are open on the left and closed on the
\* right, the first one included, so a value equal to the lowest edge falls
\* into no bin and its category is NaN ("<NaN>" here)
delay_category(x) ==
    CASE x <= delay_bins[1] -> "<NaN>"
      [] x > delay_bins[1] /\ x <= delay_bins[2] -> delay_labels[1]
      [] x > delay_bins[2] /\ x <= delay_bins[3] -> delay_labels[2]
      [] x > delay_bins[3] /\ x <= delay_bins[4] -> delay_labels[3]
      [] OTHER -> delay_labels[4]

\* process_delay_data(df): the frame with its delay_category column
process_delay_data(df) ==
    [i \in 1..Len(df) |->
        [temperature |-> df[i].temperature,
         precipitation |-> df[i].precipitation,
         delay_minutes |-> df[i].delay_minutes,
         delay_category |-> delay_category(df[i].delay_minutes)]]

ProcessDelayData(df) ==
    /\ dfCall' = [called |-> TRUE, op |-> "process_delay_data", df |-> df,
                  result |-> process_delay_data(df)]
    /\ UNCHANGED <<wsVars, dbVars, ops, runVars, colVars, lastQuery, bulk,
                   gen, cond, cloud, results_pkl, modelCall, pred>>

----------------------------------------------------------------------------
(* Specifications *)

\* after construction: an empty cache, and whatever database file an
\* earlier process left (none, or one with an empty table)
Init ==
    /\ now = 0
    /\ cache = <<>>
    /\ gw = NoCall
    /\ lastFetch = [valid |-> FALSE]
    /\ tableExists \in BOOLEAN
    /\ table = <<>>
    /\ ops = 0
    /\ runPc = "idle"
    /\ runForce = FALSE
    /\ runResult = NoResult
    /\ runPriorLen = 0
    /\ initLog = NoInit
    /\ colPc = "idle"
    /\ colCaller = "direct"
    /\ colStart = 0
    /\ colEnd = 0
    /\ current_date = 0
    /\ all_data = <<>>
    /\ dayLog = <<>>
    /\ storeCalls = 0
    /\ storeArg = <<>>
    /\ storeFailed = FALSE
    /\ storeOutcome = "none"
    /\ storeRaised = FALSE
    /\ colPrior = <<>>
    /\ lastQuery = NoQuery
    /\ bulk = NoCall
    /\ gen = NoCall
    /\ cond = NoCall
    /\ cloud = NoCall
    /\ results_pkl = NoFile
    /\ modelCall = NoCall
    /\ pred = NoCall
    /\ dfCall = NoCall

NextGateway ==
    \/ \E code \in Airports, d \in WeatherDates, o \in Outcomes :
          \E p \in (IF o = "ok" THEN Observations ELSE {ObsClear}) :
             GetWeather(code, d, o, p)
    \/ Tick

SpecGateway == Init /\ [][NextGateway]_vars

NextCollector ==
    \/ \E r \in CollectRanges : CollectStart(r[1], r[2])
    \/ \E s \in DayScenarios : CollectDay(s)
    \/ \E o \in StoreOutcomes : CollectFinish(o)
    \/ \E o \in InitOutcomes : InitDatabase(o)
    \/ \E force \in BOOLEAN, o \in InitOutcomes : RunStart(force, o)
    \/ RunVerify
    \/ \E s \in QueryDates, e \in QueryDates : Query(s, e)
    \/ \E importable \in BOOLEAN : LoadSampleData(importable)

SpecCollector == Init /\ [][NextCollector]_vars

\* the weather service's functions, called directly
NextService ==
    \/ \E airports \in BulkAirports, answer \in [Airports -> BulkAnswers] :
          BulkWeather(airports, Date(2024, 12, 11),
                      [a \in Airports |-> answer[a].outcome],
                      [a \in Airports |-> answer[a].obs])
    \/ \E d \in Descriptions \cup TablePhrases : MapCondition(d)

SpecService == Init /\ [][NextService]_vars

\* the record generator, called directly
NextGenerator ==
    \/ \E w \in GenWeather, dr \in GenDraws : Generate(w, dr)

SpecGenerator == Init /\ [][NextGenerator]_vars

\* the three-day scenario
NextScenario ==
    \/ ScenarioStart
    \/ \E s \in DayScenarios : CollectDay(s)
    \/ \E o \in StoreOutcomes : CollectFinish(o)

SpecScenario == Init /\ [][NextScenario]_vars

\* the cloud layer parser, called directly
NextClouds ==
    \/ \E layers \in LayerLists : ParseCloudCoverage(layers)

SpecClouds == Init /\ [][NextClouds]_vars

\* the prediction page: obtain a model bundle, then predict
NextAnalysis ==
    \/ \E c \in CvRmses, o \in TrainOutcomes : TrainModel(c, o)
    \/ GetModel
    \/ \E p \in Predictions, d \in {NULL, Date(2024, 12, 11)} :
          PredictWithInterval(p, d)

\* the functions over a data frame, called directly
NextFrames ==
    \/ \E df \in Frames, temperature \in FlagTemperatures,
          precipitation \in FlagPrecipitations :
          SevereWeather(df, temperature, precipitation)
    \/ \E df \in Frames : PerformWeatherAnalysis(df)
    \/ \E df \in Frames : ProcessDelayData(df)

SpecFrames == Init /\ [][NextFrames]_vars

SpecAnalysis == Init /\ [][NextAnalysis]_vars

Next ==
    \/ NextGateway \/ NextCollector \/ NextService \/ NextGenerator
    \/ NextScenario \/ NextClouds \/ NextAnalysis \/ NextFrames

Spec == Init /\ [][Next]_vars

----------------------------------------------------------------------------
(* Properties *)

\* the days of the range [s, e], ascending
DaySeq(s, e) == [i \in 1..(IF e >= s THEN e - s + 1 ELSE 0) |-> s + (i - 1)]

\* the days the loop has entered so far, in order
DaysEntered == [i \in 1..Len(dayLog) |-> dayLog[i].date]

\* the batches of the days that did not fail, in order
OkBatches ==
    LET good == SelectSeq(dayLog, LAMBDA d : d.ok)
    IN [i \in 1..Len(good) |-> good[i].batch]

\* the days any operation of the model can write rows for
KnownDays ==
    {Date(2023, 12, 31), Date(2024, 1, 1)} \cup (RunStartDate..RunEndDate)

\* the day a stored date text stands for
DayOfText(s) == CHOOSE n \in KnownDays : IsoFormat(n) = s

\* the rows of the table whose day lies in [s, e]
RowsBetween(tbl, s, e) ==
    SelectSeq(tbl, LAMBDA x : s <= DayOfText(x.data.date) /\ DayOfText(x.data.date) <= e)

\* the external lookup of the last direct call failed
GwFailed == gw.called /\ ~gw.hit /\ (gw.outcome # "ok" \/ ProcessRaises(gw.obs))

(* C1: get_weather never raises, and whenever the external lookup fails    *)
(* (any of the three requests, a malformed payload, missing coordinates,   *)
(* an error while processing the observation) the snapshot it returns has  *)
(* the default values: temperature 68.0, precipitation 0, wind_speed 0,    *)
(* visibility 10, cloud_coverage 0, humidity 50, pressure 1013.25, Clear.  *)
C1_FailureGivesDefault ==
    /\ gw.called => ~gw.raised
    /\ GwFailed =>
        /\ gw.data.temperature = 680
        /\ gw.data.precipitation = 0
        /\ gw.data.wind_speed = 0
        /\ gw.data.visibility = 10000000
        /\ gw.data.cloud_coverage = 0
        /\ gw.data.humidity = 50
        /\ gw.data.pressure = 101325
        /\ gw.data.weather_condition = "Clear"

\* the three requests answered, processing the observation raised, and the
\* caller got the default snapshot
C1_Witness ==
    /\ gw.called /\ gw.outcome = "ok" /\ ProcessRaises(gw.obs)
    /\ gw.requests = 3
    /\ gw.data = default_weather

(* C2: when a fetch for (airport, date) succeeded less than 30 minutes     *)
(* before a call for the same airport and date, that call makes no request *)
(* and returns the snapshot the fetch stored.                              *)
C2_SecondCallServedFromCache ==
    ( /\ gw.called
      /\ gw.prev.valid
      /\ gw.prev.airport = gw.airport
      /\ gw.prev.date = gw.date
      /\ gw.time - gw.prev.time < cache_duration )
    => (gw.requests = 0 /\ gw.data = gw.prev.data)

(* C3: a store adds no row that is equal on every data field to a row      *)
(* already in the table.                                                   *)
C3_StoreAddsNoKnownRow ==
    (colPc = "done" /\ storeCalls = 1 /\ ~storeFailed) =>
        \A i \in (Len(colPrior) + 1)..Len(table) :
            \A j \in 1..Len(colPrior) : table[i].data # table[j].data

(* C4: a run that returns has collected every day of its range, whatever   *)
(* the value of force.                                                     *)
C4_RunCollectsForEitherForce ==
    runPc = "returned" =>
        (colPc = "done" /\ DaysEntered = DaySeq(RunStartDate, RunEndDate))

(* C5: when initialize_historical_data(force=True) has returned, every row *)
(* of the table was written by this run and carries a date of the run's    *)
(* range.                                                                  *)
C5_ForceRunLeavesOnlyItsRows ==
    (runPc = "returned" /\ runForce) =>
        \A i \in 1..Len(table) :
            /\ table[i].collection_timestamp = ops
            /\ table[i].data.date \in {IsoFormat(d) : d \in RunStartDate..RunEndDate}

\* a forced run over a table that held rows has returned
C5_Witness ==
    runPc = "returned" /\ runForce /\ runPriorLen > 0 /\ table # <<>>

(* C6: the loop enters the days of [start_date, end_date] once each in     *)
(* ascending order; a failing day leaves out only its own batch; when the  *)
(* call has ended all days were entered, and if the store went through the *)
(* table is the old table followed by the cleaned batches of the days that *)
(* did not fail.                                                           *)
C6_EachDayOnceFailuresSkipped ==
    colPc \in {"loop", "done"} =>
        /\ DaysEntered = DaySeq(colStart, current_date - 1)
        /\ all_data = OkBatches
        /\ colPc = "done" =>
            /\ DaysEntered = DaySeq(colStart, colEnd)
            /\ (storeCalls = 1 /\ ~storeFailed) =>
                  table = store_data(colPrior, clean_data(Concat(OkBatches)), ops)

\* a day failed, a later day produced rows, and they were stored
C6_Witness ==
    /\ colPc = "done" /\ storeCalls = 1 /\ ~storeFailed
    /\ \E i, j \in 1..Len(dayLog) :
          i < j /\ ~dayLog[i].ok /\ dayLog[j].ok /\ dayLog[j].batch # <<>>
    /\ Len(table) > Len(colPrior)

(* C7 as stated: the run raises exactly when the query made after the      *)
(* collection returns no rows.                                             *)
C7_RaisesExactlyOnEmptyQuery ==
    runPc \in {"returned", "raised"} =>
        (runPc = "raised" <=> runResult.error = "no_data")

(* C7, amended: the run raises when init_database fails, when the query    *)
(* fails for want of a table, or when no row of the table lies in the      *)
(* range, and in no other case; so a run that returns leaves a table with  *)
(* at least one row in the range, and returns those rows.                  *)
C7_RaisesOnInitQueryOrEmpty ==
    runPc \in {"returned", "raised"} =>
        /\ runPc = "raised" <=>
              \/ runResult.error = "init_database"
              \/ ~tableExists
              \/ RowsBetween(table, RunStartDate, RunEndDate) = <<>>
        /\ runPc = "returned" =>
              /\ runResult.rows # <<>>
              /\ runResult.rows = RowsBetween(table, RunStartDate, RunEndDate)

\* a forced run whose store failed inside raised at the verification
C7_Witness ==
    /\ runPc = "raised" /\ runForce /\ runResult.error = "no_data"
    /\ storeCalls = 1 /\ storeFailed

(* C8 as stated: a forced run none of whose days produced data ends        *)
(* without writing a row and without raising.                              *)
C8_ZeroDaysRunDoesNotRaise ==
    ( /\ runForce /\ runPc \in {"returned", "raised"}
      /\ colPc = "done" /\ OkBatches = <<>> )
    => (runPc = "returned" /\ table = <<>>)

(* C8, amended: when none of the days produced data, collect_and_store_data*)
(* returns without calling the store and leaves the table as it was; the   *)
(* forced run that called it, its table just reinitialized, then raises at *)
(* the verification.                                                       *)
C8_ZeroDaysNoWriteThenRunRaises ==
    (colPc = "done" /\ OkBatches = <<>>) =>
        /\ storeCalls = 0
        /\ table = colPrior
        /\ (colCaller = "run" /\ runPc \in {"returned", "raised"}) =>
              (table = <<>> /\ runPc = "raised" /\ runResult.error = "no_data")

\* a forced run all of whose days failed has ended
C8_Witness ==
    /\ runForce /\ runPc = "raised" /\ colPc = "done"
    /\ Len(dayLog) = HistoryDays + 1
    /\ \A i \in 1..Len(dayLog) : ~dayLog[i].ok

(* C9: while days are being processed the table is not written; the store  *)
(* is called at most once, after the last day, with the cleaned            *)
(* concatenation of the daily batches.                                     *)
C9_OneStoreAfterTheLoop ==
    /\ colPc = "loop" => (table = colPrior /\ storeCalls = 0)
    /\ colPc = "done" =>
        /\ storeCalls <= 1
        /\ storeCalls = 1 =>
              /\ DaysEntered = DaySeq(colStart, colEnd)
              /\ storeArg = clean_data(Concat(all_data))
        /\ storeCalls = 0 => table = colPrior

\* two days were processed and one store wrote their rows
C9_Witness ==
    /\ colPc = "done" /\ storeCalls = 1 /\ ~storeFailed
    /\ Len(all_data) >= 2
    /\ Len(table) > Len(colPrior)

(* C10: get_stored_data(start, end) with both bounds returns exactly the   *)
(* rows whose date lies in [start, end], both ends included; without       *)
(* bounds it returns every row.                                            *)
C10_QueryRange ==
    (lastQuery.called /\ ~lastQuery.raised) =>
        /\ (lastQuery.start # NULL /\ lastQuery.end # NULL) =>
              lastQuery.rows = RowsBetween(table, lastQuery.start, lastQuery.end)
        /\ (lastQuery.start = NULL /\ lastQuery.end = NULL) =>
              lastQuery.rows = table

\* a bounded query returned some rows of the table and left others out,
\* among the returned ones a row dated on the upper bound
C10_Witness ==
    /\ lastQuery.called /\ ~lastQuery.raised
    /\ lastQuery.start # NULL /\ lastQuery.end # NULL
    /\ lastQuery.rows # <<>>
    /\ Len(lastQuery.rows) < Len(table)
    /\ \E i \in 1..Len(lastQuery.rows) :
          lastQuery.rows[i].data.date = IsoFormat(lastQuery.end)

(* C11: get_bulk_weather returns one entry for every requested airport and *)
(* no other; an airport whose lookup fails gets the default snapshot, and   *)
(* every airport's snapshot is what its own lookup gives, whatever happened *)
(* to the airports before it.                                               *)
C11_BulkOneEntryPerAirport ==
    bulk.called =>
        /\ DOMAIN bulk.weather_data =
              {bulk.airports[i] : i \in 1..Len(bulk.airports)}
        /\ \A a \in DOMAIN bulk.weather_data :
              bulk.weather_data[a] =
                 IF bulk.outcomeOf[a] # "ok" THEN default_weather
                 ELSE ProcessObservation(bulk.obsOf[a], bulk.time).data

\* the lookup of the first of two airports failed, the second was fetched
C11_Witness ==
    /\ bulk.called /\ Len(bulk.airports) = 2
    /\ bulk.outcomeOf[bulk.airports[1]] # "ok"
    /\ bulk.weather_data[bulk.airports[1]] = default_weather
    /\ bulk.outcomeOf[bulk.airports[2]] = "ok"
    /\ bulk.weather_data[bulk.airports[2]] # default_weather

(* C12 as stated: when the store fails, _store_data itself returns normally *)
(* and the rows that were in the table are still there.                     *)
C12_StoreItselfNeverRaises ==
    (colPc = "done" /\ storeCalls = 1 /\ storeFailed) =>
        (~storeRaised /\ table = colPrior)

(* C12, amended: a failing to_sql is swallowed by _store_data; a failing    *)
(* connect leaves _store_data as an exception and is swallowed by           *)
(* collect_and_store_data; either way collect_and_store_data returns and    *)
(* the table is what it was before the call.                                *)
C12_StoreFailureStaysInsideCollect ==
    (colPc = "done" /\ storeCalls = 1 /\ storeFailed) =>
        /\ storeRaised <=> storeOutcome = "connect_fails"
        /\ table = colPrior

\* to_sql failed on a table that held rows, and the call has returned
C12_Witness ==
    /\ colPc = "done" /\ storeCalls = 1
    /\ storeOutcome = "to_sql_fails" /\ ~storeRaised
    /\ colPrior # <<>> /\ table = colPrior

(* C13: a failing init_database raises to its caller; the forced run that   *)
(* called it raises in turn, having entered no day of the collection and    *)
(* made no store.                                                           *)
C13_InitFailurePropagates ==
    (initLog.called /\ initLog.outcome # "ok") =>
        /\ initLog.raised
        /\ runPc # "idle" =>
              /\ runPc = "raised"
              /\ runResult.error = "init_database"
              /\ colPc = "idle" /\ dayLog = <<>> /\ storeCalls = 0

\* a forced run on a table that held rows raised because the table could
\* not be created anew
C13_Witness ==
    /\ runForce /\ runPc = "raised" /\ runPriorLen > 0
    /\ initLog.called /\ initLog.outcome = "create_fails" /\ initLog.raised
    /\ dayLog = <<>>

(* C14: every record _generate_flight_data emits, whatever the weather      *)
(* mapping (an empty one included), has delay_minutes >= 0 and a            *)
(* weather_delay flag that is true exactly when delay_minutes > 30.         *)
C14_GeneratedDelayAndFlag ==
    gen.called =>
        \A i \in 1..Len(gen.rows) :
            /\ gen.rows[i].delay_minutes >= 0
            /\ gen.rows[i].weather_delay <=> gen.rows[i].delay_minutes > 3000

\* one call emitted a record whose delay was clamped to 0 and a record
\* flagged as weather delay
C14_Witness ==
    /\ gen.called
    /\ \E i, j \in 1..Len(gen.rows) :
          /\ gen.rows[i].delay_minutes = 0 /\ ~gen.rows[i].weather_delay
          /\ gen.rows[j].delay_minutes > 3000 /\ gen.rows[j].weather_delay

\* the six normalized conditions
Conditions == {"Clear", "Clouds", "Rain", "Snow", "Fog", "Thunderstorm"}

\* s with its capital letters replaced by small ones
Lower(s) ==
    [i \in 1..Len(s) |->
        IF \E c \in DOMAIN UpperOf : UpperOf[c] = s[i]
        THEN CHOOSE c \in DOMAIN UpperOf : UpperOf[c] = s[i]
        ELSE s[i]]

\* the table phrases some letter case of which occurs in s
PhrasesIn(s) ==
    {i \in 1..Len(condition_mapping) :
        Contains(Lower(s), Lower(condition_mapping[i][1]))}

(* C15: the mapping yields one of the six conditions; it does not depend on *)
(* the letter case of the description; a description in which a table       *)
(* phrase occurs is mapped to the condition of such a phrase, "light rain   *)
(* showers" to Rain; an empty, missing or unrecognized one to Clear.        *)
C15_MappingIgnoresCaseMatchesSubstrings ==
    cond.called =>
        /\ cond.result \in Conditions
        /\ cond.result = map_weather_condition(Lower(cond.description))
        /\ PhrasesIn(cond.description) # {} =>
              \E i \in PhrasesIn(cond.description) :
                  cond.result = condition_mapping[i][2]
        /\ PhrasesIn(cond.description) = {} => cond.result = "Clear"
        /\ Lower(cond.description) = Lower(<<"L", "I", "G", "H", "T", " ", "R", "A",
                                             "I", "N", " ", "S", "H", "O", "W",
                                             "E", "R", "S">>)
              => cond.result = "Rain"

\* a description in small letters was matched inside a longer text
C15_Witness ==
    /\ cond.called
    /\ cond.description =
          <<"l", "i", "g", "h", "t", " ", "r", "a", "i", "n", " ", "s", "h", "o",
            "w", "e", "r", "s">>
    /\ cond.result = "Rain"

\* the coverage codes and their values
CodeValue ==
    "CLR" :> 0 @@ "FEW" :> 25 @@ "SCT" :> 50 @@ "BKN" :> 75 @@ "OVC" :> 100 @@
    "VV" :> 100

DatesOf(tbl) == {tbl[i].data.date : i \in 1..Len(tbl)}

\* every call of the gateway during the collection returned the default
\* snapshot, no day failed, and every day yielded a record
AllDaysDefaulted ==
    \A i \in 1..Len(dayLog) :
        /\ dayLog[i].ok
        /\ dayLog[i].batch # <<>>
        /\ \A a \in Airports : dayLog[i].weather[a] = default_weather

(* C17: a collection into an empty table during which the gateway returned *)
(* the default snapshot for every call, no day failed and every day        *)
(* yielded a record leaves rows for exactly the n dates of its range, all  *)
(* with weather_condition Clear and temperature 68.0.                      *)
C17_DefaultCollectionCoversEveryDate ==
    ( /\ colPc = "done" /\ storeCalls = 1 /\ ~storeFailed
      /\ colPrior = <<>> /\ AllDaysDefaulted )
    => /\ DatesOf(table) = {IsoFormat(d) : d \in colStart..colEnd}
       /\ Cardinality(DatesOf(table)) = colEnd - colStart + 1
       /\ \A i \in 1..Len(table) :
             /\ table[i].data.weather_condition = "Clear"
             /\ table[i].data.temperature = 680

\* such a collection over three days has ended and left fewer rows than
\* records were generated
C17_Witness ==
    /\ colPc = "done" /\ storeCalls = 1 /\ ~storeFailed
    /\ colPrior = <<>> /\ AllDaysDefaulted
    /\ colEnd - colStart + 1 = 3
    /\ Cardinality(DatesOf(table)) = 3
    /\ Len(table) < Len(Concat(all_data))


\* C18: whenever predict_with_interval answers with a bundle whose cv_rmse
\* is a number >= 0, lower_bound is max(0, prediction - 1.96 * cv_rmse) and
\* upper_bound is prediction + 1.96 * cv_rmse, so 0 <= lower_bound <=
\* upper_bound, and lower_bound <= prediction <= upper_bound when the
\* prediction is >= 0; cv_rmse 5.0 and prediction 20.0 give 10.2 and 29.8
C18_IntervalAroundPrediction ==
    (pred.called /\ ~pred.result.raised /\ pred.cv_rmse # NULL
       /\ pred.cv_rmse >= 0) =>
        LET p == pred.forest * 100
            m == pred.cv_rmse * 196
            r == pred.result
        IN /\ r.prediction = p
           /\ r.lower_bound = (IF p - m > 0 THEN p - m ELSE 0)
           /\ r.upper_bound = p + m
           /\ 0 <= r.lower_bound
           /\ r.lower_bound <= r.upper_bound
           /\ (p >= 0 => r.lower_bound <= p /\ p <= r.upper_bound)
           /\ (pred.cv_rmse = 500 /\ pred.forest = 2000 =>
                 r.lower_bound = 102000 /\ r.upper_bound = 298000)

\* the scenario of C18 is reached
C18_Witness ==
    /\ pred.called
    /\ ~pred.result.raised
    /\ pred.cv_rmse = 500
    /\ pred.forest = 2000
    /\ pred.result.lower_bound = 102000
    /\ pred.result.upper_bound = 298000

\* a call whose lower bound was clamped to 0 is reached
C18_WitnessClamped ==
    /\ pred.called
    /\ ~pred.result.raised
    /\ pred.cv_rmse = 500
    /\ pred.forest = 490
    /\ pred.result.lower_bound = 0


\* C19: a get_model call that finds results.pkl absent or damaged logs the
\* error and ends in an exception that reaches its caller, so it returns no
\* bundle; a call that finds a complete snapshot returns that bundle
C19_ModelLoadFailsLoudly ==
    (modelCall.called /\ modelCall.op = "get_model") =>
        IF modelCall.prior.state \in {"absent", "corrupt"}
        THEN /\ modelCall.logged
             /\ modelCall.raised
             /\ modelCall.error = "UnboundLocalError"
             /\ ~ENABLED (\E p \in Predictions : PredictWithInterval(p, NULL))
        ELSE /\ ~modelCall.raised
             /\ modelCall.results = modelCall.prior.bundle

\* get_model has been called on a snapshot that a failed dump left damaged
C19_Witness ==
    /\ modelCall.called
    /\ modelCall.op = "get_model"
    /\ modelCall.prior.state = "corrupt"
    /\ modelCall.raised

\* get_model has been called when results.pkl did not exist
C19_WitnessAbsent ==
    /\ modelCall.called
    /\ modelCall.op = "get_model"
    /\ modelCall.prior.state = "absent"
    /\ modelCall.raised


\* a record whose delay is not negative and whose flag is delay > 30 minutes
DelayConsistent(r) ==
    /\ r.delay_minutes # NULL
    /\ r.delay_minutes >= 0
    /\ r.weather_delay \in BOOLEAN
    /\ r.weather_delay <=> (r.delay_minutes > 3000)

\* C20: whatever init_database, collect_and_store_data and
\* initialize_historical_data calls have run, every row of flight_data has
\* delay_minutes >= 0 and weather_delay == (delay_minutes > 30), and so has
\* every row of a cleaned frame handed to _store_data
C20_StoredDelayAndFlag ==
    /\ \A i \in 1..Len(table) : DelayConsistent(table[i].data)
    /\ \A i \in 1..Len(storeArg) : DelayConsistent(storeArg[i])

\* the table holds a row delayed by more than 30 minutes and a row whose
\* delay was clamped to 0, written by two operations
C20_Witness ==
    /\ \E i \in 1..Len(table) :
          table[i].data.delay_minutes > 3000 /\ table[i].data.weather_delay
    /\ \E i \in 1..Len(table) :
          table[i].data.delay_minutes = 0 /\ ~table[i].data.weather_delay
    /\ \E i, j \in 1..Len(table) :
          table[i].collection_timestamp # table[j].collection_timestamp


\* the weather one generated record was built from: the origin's entry of
\* the mapping, or the fallback draws
GenWeatherOfRow(r) ==
    IF r.origin \in DOMAIN gen.weather_data THEN gen.weather_data[r.origin]
    ELSE gen.draws.fallback

\* alpha as the regimes of C21 give it, from the weather of the origin
RegimeAlpha(w) ==
    CASE w.precipitation = NULL -> 0
      [] w.precipitation # NULL /\ w.precipitation < 30 -> 0
      [] w.precipitation # NULL /\ w.precipitation >= 30
            /\ w.temperature > 320 -> gen.draws.alpha_rain
      [] OTHER -> gen.draws.alpha_snow

\* the delay of a record whose weather term is alpha
DelayWithAlpha(w, alpha) ==
    LET precipitation == IF w.precipitation = NULL THEN 0 ELSE w.precipitation
        base_delay == 50 * gen.draws.airline_factor
                      + 50 * gen.draws.airport_factor + precipitation * 20
                      + (1000 - w.temperature) \div 10 + 100 * alpha
    IN IF base_delay > 0 THEN base_delay ELSE 0

\* C21: the weather term of every generated record follows the regimes: 0
\* when precipitation is missing, 0 or below 0.3, whatever the temperature;
\* the Normal(10,3) draw when precipitation >= 0.3 and temperature > 32; the
\* Normal(25,5) draw when precipitation >= 0.3 and temperature <= 32.  The
\* term is read off the record's delay, which contains it.
C21_AlphaFollowsRegime ==
    gen.called =>
        \A i \in 1..Len(gen.rows) :
            LET w == GenWeatherOfRow(gen.rows[i])
            IN /\ gen.rows[i].delay_minutes = DelayWithAlpha(w, RegimeAlpha(w))
               /\ alpha_of(gen.rows[i].precipitation, w.temperature, gen.draws)
                     = RegimeAlpha(w)

\* one call emitted a record of the snow regime (at exactly 32 F) and a
\* record of the rain regime (at exactly 0.3), neither of them clamped
C21_Witness ==
    /\ gen.called
    /\ \E i, j \in 1..Len(gen.rows) :
          LET wi == GenWeatherOfRow(gen.rows[i])
              wj == GenWeatherOfRow(gen.rows[j])
          IN /\ wi.precipitation # NULL /\ wi.precipitation >= 30
             /\ wi.temperature = 320 /\ gen.rows[i].delay_minutes > 0
             /\ wj.precipitation = 30 /\ wj.temperature > 320
             /\ gen.rows[j].delay_minutes > 0

\* a call emitted a record whose weather had no precipitation value
C21_WitnessMissing ==
    /\ gen.called
    /\ \E k \in 1..Len(gen.rows) :
          /\ GenWeatherOfRow(gen.rows[k]).precipitation = NULL
          /\ gen.rows[k].precipitation = 0
          /\ gen.rows[k].delay_minutes > 0

\* a call emitted a record below freezing with precipitation under 0.3
C21_WitnessColdDry ==
    /\ gen.called
    /\ \E i \in 1..Len(gen.rows) :
          LET w == GenWeatherOfRow(gen.rows[i])
          IN w.precipitation = 29 /\ w.temperature < 320
             /\ gen.rows[i].delay_minutes > 0


C22_WitnessReplaced ==
    /\ modelCall.called
    /\ modelCall.op = "train_model"
    /\ ~modelCall.raised
    /\ modelCall.prior.state = "ok"
    /\ results_pkl # modelCall.prior


\* C23: the severe-weather flag of training is temperature below the 20th
\* percentile and precipitation above the 80th, that of inference is
\* temperature above the 80th percentile and precipitation above the 80th;
\* over every reference frame some input gets different flags
C23_SevereFlagDiffers ==
    (dfCall.called /\ dfCall.op = "severe_weather") =>
        LET t20 == quantile10(Column(dfCall.df, "temperature"), 2)
            t80 == quantile10(Column(dfCall.df, "temperature"), 8)
            p80 == quantile10(Column(dfCall.df, "precipitation"), 8)
        IN /\ dfCall.train <=> (dfCall.temperature * 10 < t20
                                /\ dfCall.precipitation * 10 > p80)
           /\ dfCall.infer <=> (dfCall.temperature * 10 > t80
                                /\ dfCall.precipitation * 10 > p80)
           /\ \E temperature \in FlagTemperatures,
                 precipitation \in FlagPrecipitations :
                 severe_weather_train(dfCall.df, temperature, precipitation)
                 # severe_weather_infer(dfCall.df, temperature, precipitation)

\* an input is flagged at training and not at inference, over a frame whose
\* percentiles lie between its rows
C23_Witness ==
    /\ dfCall.called
    /\ dfCall.op = "severe_weather"
    /\ Len(dfCall.df) = 5
    /\ dfCall.train
    /\ ~dfCall.infer

\* an input is flagged at inference and not at training
C23_WitnessInferOnly ==
    /\ dfCall.called
    /\ dfCall.op = "severe_weather"
    /\ ~dfCall.train
    /\ dfCall.infer


\* the distinct delay_minutes values of a frame
DistinctDelays(df) == {df[i].delay_minutes : i \in 1..Len(df)}

\* C24: perform_weather_analysis on a frame with fewer than 4 distinct
\* delay_minutes values does not raise and gives every row the bucket "Low"
C24_FewDistinctDelaysAllLow ==
    (dfCall.called /\ dfCall.op = "perform_weather_analysis"
       /\ Cardinality(DistinctDelays(dfCall.df)) < 4) =>
        /\ ~dfCall.result.raised
        /\ \A i \in 1..Len(dfCall.df) :
              dfCall.result.weather_severity[i] = "Low"

\* what the code does hold to: with at least two rows the call does not
\* raise, and when the five quartile edges of the delays are not distinct
\* every row is "Low"
C24_TiedQuartilesAllLow ==
    (dfCall.called /\ dfCall.op = "perform_weather_analysis"
       /\ Len(dfCall.df) >= 2) =>
        /\ ~dfCall.result.raised
        /\ QcutRaises(Column(dfCall.df, "delay_minutes")) =>
              \A i \in 1..Len(dfCall.df) :
                 dfCall.result.weather_severity[i] = "Low"

\* a frame of two distinct delays whose rows got two different buckets
C24_TwoDelaysTwoBuckets ==
    /\ dfCall.called
    /\ dfCall.op = "perform_weather_analysis"
    /\ Cardinality(DistinctDelays(dfCall.df)) = 2
    /\ ~dfCall.result.raised
    /\ \E i, j \in 1..Len(dfCall.df) :
          /\ dfCall.result.weather_severity[i] = "Low"
          /\ dfCall.result.weather_severity[j] = "Severe"


\* the collect call that has just returned was made without arguments, as
\* the scheduler's daily job makes it
DailyRunDone ==
    /\ colPc = "done"
    /\ colCaller = "direct"
    /\ colStart = DefaultStart
    /\ colEnd = DefaultEnd

\* C25: every firing of the daily job collects at least one day and appends
\* its records, so flight_data is longer after the run than before it
C25_DailyRunGrowsTable ==
    DailyRunDone => (dayLog # <<>> /\ Len(table) > Len(colPrior))

\* what the code does: the daily call enters no day, makes no store call
\* and leaves the table as it was
C25_DailyRunCollectsNothing ==
    DailyRunDone => (dayLog = <<>> /\ storeCalls = 0 /\ table = colPrior)

\* a daily call has returned
C25_DailyRunReturned == DailyRunDone /\ tableExists


\* C26: load_sample_data returns the stored table when it is not empty and
\* a non-empty generated dataset in every other case; it never returns
\* without a dataset
C26_LoadAlwaysReturnsDataset ==
    (dfCall.called /\ dfCall.op = "load_sample_data") =>
        /\ dfCall.result.dataset
        /\ dfCall.result.rows # <<>>
        /\ (dfCall.importable /\ dfCall.exists /\ dfCall.stored # <<>>) =>
              dfCall.result.rows = dfCall.stored

\* what the code does: the stored table when it can be read and is not
\* empty, and no dataset otherwise
C26_LoadReturnsStoredOrNothing ==
    (dfCall.called /\ dfCall.op = "load_sample_data") =>
        IF dfCall.importable /\ dfCall.exists /\ dfCall.stored # <<>>
        THEN dfCall.result.dataset /\ dfCall.result.rows = dfCall.stored
        ELSE ~dfCall.result.dataset

\* load_sample_data has returned a stored table
C26_LoadedStored ==
    /\ dfCall.called
    /\ dfCall.op = "load_sample_data"
    /\ dfCall.result.dataset
    /\ Len(dfCall.result.rows) > 0


\* C27: predict_with_interval called without a date uses 2024-12-11 and
\* returns a prediction with its bounds, as the same call with that date does
C27_NoDateUsesDefault ==
    (pred.called /\ pred.date = NULL) =>
        /\ ~pred.result.raised
        /\ pred.result = predict_with_interval([cv_rmse |-> pred.cv_rmse],
                                               pred.forest,
                                               Date(2024, 12, 11))

\* what the code does: a call without a date raises, and only such a call
C27_NoDateRaises ==
    pred.called => (pred.result.raised <=> pred.date = NULL)

\* predict_with_interval has been called without a date
C27_CalledWithoutDate == pred.called /\ pred.date = NULL /\ pred.forest = 2000


\* C28: no entry of the condition table is shadowed by an earlier one:
\* mapping a phrase of the table returns the condition the table gives it
C28_NoTableEntryShadowed ==
    cond.called =>
        \A i \in 1..Len(condition_mapping) :
            cond.description = condition_mapping[i][1] =>
                cond.result = condition_mapping[i][2]

\* what the code does: every phrase of the table but SNOW SHOWERS gets its
\* own condition, and SNOW SHOWERS gets Rain, the condition of SHOWERS
C28_OnlySnowShowersShadowed ==
    cond.called =>
        \A i \in 1..Len(condition_mapping) :
            cond.description = condition_mapping[i][1] =>
                IF cond.description
                     = <<"S", "N", "O", "W", " ", "S", "H", "O", "W", "E", "R", "S">>
                THEN cond.result = "Rain" /\ condition_mapping[i][2] = "Snow"
                ELSE cond.result = condition_mapping[i][2]

\* the phrase THUNDERSTORMS of the table has been mapped
C28_MappedTablePhrase ==
    /\ cond.called
    /\ cond.description \in TablePhrases
    /\ cond.result = "Thunderstorm"
    /\ Len(cond.description) = 13


\* C29: a get_stored_data call given exactly one of start_date and end_date
\* ignores it and returns every row of the table, as a call given neither
\* bound does
C29_OneSidedBoundIgnored ==
    (lastQuery.called /\ ~lastQuery.raised
       /\ (lastQuery.start = NULL) # (lastQuery.end = NULL)) =>
        /\ lastQuery.rows = table
        /\ lastQuery.rows = get_stored_data(table, NULL, NULL)

\* a call with a start date only has returned rows dated before that start
C29_Witness ==
    /\ lastQuery.called
    /\ ~lastQuery.raised
    /\ lastQuery.start = Date(2024, 12, 12)
    /\ lastQuery.end = NULL
    /\ lastQuery.rows # <<>>
    /\ \E i \in 1..Len(lastQuery.rows) :
          StrLess(lastQuery.rows[i].data.date, IsoFormat(lastQuery.start))

\* a call with an end date only has returned rows dated after that end
C29_WitnessEndOnly ==
    /\ lastQuery.called
    /\ ~lastQuery.raised
    /\ lastQuery.start = NULL
    /\ lastQuery.end = Date(2023, 12, 31)
    /\ \E i \in 1..Len(lastQuery.rows) :
          StrLess(IsoFormat(lastQuery.end), lastQuery.rows[i].data.date)


\* C30: process_delay_data gives every row with delay_minutes >= 0 exactly
\* one of No Delay, Minor, Significant, Severe; a row with delay_minutes = 0
\* is labelled No Delay
C30_EveryDelayHasCategory ==
    (dfCall.called /\ dfCall.op = "process_delay_data") =>
        \A i \in 1..Len(dfCall.result) :
            dfCall.result[i].delay_minutes >= 0 =>
                /\ dfCall.result[i].delay_category
                      \in {"No Delay", "Minor", "Significant", "Severe"}
                /\ dfCall.result[i].delay_minutes = 0 =>
                      dfCall.result[i].delay_category = "No Delay"

\* what the code does: a delay above 0 gets the category of its interval,
\* closed on the right, and a delay of 0 gets none
C30_ZeroDelayHasNoCategory ==
    (dfCall.called /\ dfCall.op = "process_delay_data") =>
        \A i \in 1..Len(dfCall.result) :
            LET x == dfCall.result[i].delay_minutes
                c == dfCall.result[i].delay_category
            IN /\ x = 0 => c = "<NaN>"
               /\ (0 < x /\ x <= 1000) => c = "No Delay"
               /\ (1000 < x /\ x <= 2000) => c = "Minor"
               /\ (2000 < x /\ x <= 4000) => c = "Significant"
               /\ 4000 < x => c = "Severe"

\* a frame with a delay of 0 and a delay on a cut point has been processed
C30_ProcessedZeroDelay ==
    /\ dfCall.called
    /\ dfCall.op = "process_delay_data"
    /\ \E i, j \in 1..Len(dfCall.result) :
          /\ dfCall.result[i].delay_minutes = 0
          /\ dfCall.result[j].delay_minutes = 1000
          /\ dfCall.result[j].delay_category = "No Delay"

============================================================================
